---- MODULE Spec2Model ----
(***************************************************************************)
(* A model of the Telegram chat recovery scripts: key recovery             *)
(* (scripts/decrypt_db.py), the tagged-value decoder and the message       *)
(* decoder (scripts/extract_messages.py) and the scan of the message       *)
(* table (extract_complete_chat).                                          *)
(*                                                                         *)
(* Bytes are integers 0..255 and a byte string is a sequence of bytes.     *)
(* A Python str is a sequence of code points.  32-bit words of the hash    *)
(* are pairs <<high 16 bits, low 16 bits>>, so that no intermediate value  *)
(* leaves the range of the integers of the model checker.                  *)
(***************************************************************************)
EXTENDS Integers, Sequences, FiniteSets

VARIABLES
    keyData,     \* decrypt_db.py: `data`, the decrypted key container
    keyResult,   \* decrypt_db.py: what tempkey_parse returned or raised
    keyOut,      \* decrypt_db.py: the PRAGMA key statement main printed
    decSrc,      \* the entries the writer encoded into the decoder's buffer
    decCut,      \* how many bytes of the encoding the buffer holds
    decBuf,      \* PostboxDecoder: the bytes of self.bio
    decPos,      \* PostboxDecoder: the cursor of self.bio.buf
    decCall,     \* the last call made on the decoder
    decResult,   \* what that call returned or raised
    msgSrc,      \* the message the writer encoded into the value
    msgCut,      \* how many bytes of the encoding the value holds
    msgValue,    \* read_intermediate_message_complete: v
    msgResult,   \* what the function returned or raised, once called
    plainDb,     \* the plaintext database: none, or its tables t7 and t2
    scanState,   \* extract_complete_chat: "idle", "scanning" or "saved"
    scanPeer,    \* extract_complete_chat: peer_id, the requested peer
    cur,         \* the rows of t7 in key order, and how many were fetched
    total_processed,
    extracted,
    messages,
    peerCache,   \* get_peer_info: the default argument `cache` of the process
    emittedFrom, \* history: for each entry of messages, the row it came from
    outFile,     \* the JSON document written to output_file, once saved
    sessions,    \* history: the calls of extract_complete_chat made so far
    cacheFrom,   \* history: for each cached peer id, the call that cached it
    peerCall,    \* get_peer_info: the last direct call and what it returned
    peerQueries, \* history: for each peer id, the queries of table t2 made
    gen,         \* one generator _iter_kv(): its buffer, cursor and yields
    decryptResult,   \* decrypt_database.py: what decrypt_database returned
    recoverResult,   \* recover.py: how a run of it ended
    mediaCall,   \* create_media_index.py: the function called and its argument
    mediaResult  \* what that call returned or raised

keyVars == <<keyData, keyResult, keyOut>>
decVars == <<decSrc, decCut, decBuf, decPos, decCall, decResult>>
msgVars == <<msgSrc, msgCut, msgValue, msgResult>>
scanVars == <<scanState, scanPeer, cur, total_processed, extracted, messages,
              peerCache, emittedFrom, outFile, sessions, cacheFrom>>
peerVars == <<peerCall, peerQueries>>
pipeVars == <<decryptResult, recoverResult>>
mediaVars == <<mediaCall, mediaResult>>
vars == <<keyData, keyResult, keyOut, decSrc, decCut, decBuf, decPos, decCall, decResult,
          msgSrc, msgCut, msgValue, msgResult, plainDb, scanState, scanPeer, cur,
          total_processed, extracted, messages, peerCache, emittedFrom, outFile,
          sessions, cacheFrom, peerCall, peerQueries, gen,
          decryptResult, recoverResult, mediaCall, mediaResult>>

\* What the steps of one script leave alone: the state of the others.
OthersThanKey  == <<decVars, msgVars, plainDb, scanVars, pipeVars, mediaVars, peerVars, gen>>
OthersThanDec  == <<keyVars, msgVars, plainDb, scanVars, pipeVars, mediaVars, peerVars, gen>>
OthersThanMsg  == <<keyVars, decVars, plainDb, scanVars, pipeVars, mediaVars, peerVars, gen>>
OthersThanScan == <<keyVars, decVars, msgVars, pipeVars, mediaVars, peerVars, gen>>
OthersThanMedia == <<keyVars, decVars, msgVars, plainDb, scanVars, pipeVars, peerVars, gen>>
OthersThanPeer == <<keyVars, decVars, msgVars, pipeVars, mediaVars, gen>>
OthersThanGen == <<keyVars, decVars, msgVars, plainDb, scanVars, pipeVars, mediaVars, peerVars>>
OthersThanPipe == <<keyVars, decVars, msgVars, scanVars, mediaVars, peerVars, gen>>

----------------------------------------------------------------------------
(* Byte strings *)

Bytes(n, b) == [i \in 1..n |-> b]

\* Python slice s[a:b] with 0 <= a <= b (clipped to the length of s).
Slice(s, a, b) ==
    LET lo == IF a > Len(s) THEN Len(s) ELSE a
        hi == IF b > Len(s) THEN Len(s) ELSE b
    IN  IF hi <= lo THEN <<>> ELSE SubSeq(s, lo + 1, hi)

\* any(b): some byte is not zero.
AnyByte(s) == \E i \in 1..Len(s) : s[i] # 0

----------------------------------------------------------------------------
(* 32-bit words as <<hi16, lo16>> *)

RECURSIVE Pow2(_)
Pow2(n) == IF n = 0 THEN 1 ELSE 2 * Pow2(n - 1)

RECURSIVE XorN(_, _, _)
XorN(a, b, n) ==
    IF n = 0 THEN 0
    ELSE (((a % 2) + (b % 2)) % 2) + 2 * XorN(a \div 2, b \div 2, n - 1)

WXor(x, y) == <<XorN(x[1], y[1], 16), XorN(x[2], y[2], 16)>>

WRotl(x, r) ==
    LET m == Pow2(16 - r)
        s == Pow2(r)
    IN  <<(x[1] % m) * s + (x[2] \div m), (x[2] % m) * s + (x[1] \div m)>>

WShr(x, r) ==
    IF r = 16 THEN <<0, x[1]>>
    ELSE LET d == Pow2(r)
             m == Pow2(16 - r)
         IN  <<x[1] \div d, (x[1] % d) * m + (x[2] \div d)>>

WAdd(x, y) ==
    LET lo == x[2] + y[2]
    IN  <<(x[1] + y[1] + (lo \div 65536)) % 65536, lo % 65536>>

\* (a * b) mod 2^16 for a < 2^16 and b < 2^16, by the bytes of b.
MulLow16(a, b) ==
    (a * (b % 256) + ((a * (b \div 256)) % 256) * 256) % 65536

\* (x * c) mod 2^32
WMul(x, c) ==
    LET a0 == x[2] % 256
        a1 == x[2] \div 256
        b0 == c[2] % 256
        b1 == c[2] \div 256
        m  == a0 * b1 + a1 * b0
        s  == a0 * b0 + (m % 256) * 256
        carry == (s \div 65536) + (m \div 256) + a1 * b1
    IN  <<(carry + MulLow16(x[1], c[2]) + MulLow16(x[2], c[1])) % 65536,
          s % 65536>>

\* The word as Python's signed 32-bit integer.
WSigned(x) == (IF x[1] >= 32768 THEN x[1] - 65536 ELSE x[1]) * 65536 + x[2]

\* Four little-endian bytes as a word.
WordLE(b) == <<b[4] * 256 + b[3], b[2] * 256 + b[1]>>

----------------------------------------------------------------------------
(* mmh3.hash: MurmurHash3_x86_32 *)

MurmurC1 == <<52382, 11601>>      \* 0xcc9e2d51
MurmurC2 == <<7047, 13715>>       \* 0x1b873593
MurmurN  == <<58964, 27492>>      \* 0xe6546b64
MurmurF1 == <<34283, 51819>>      \* 0x85ebca6b
MurmurF2 == <<49842, 44597>>      \* 0xc2b2ae35
MurmurSeed == <<63434, 32722>>    \* 0xf7ca7fd2

MurmurK(k) == WMul(WRotl(WMul(k, MurmurC1), 15), MurmurC2)

\* One block of four bytes mixed into the state h.
MurmurRound(h, k) == WAdd(WMul(WRotl(WXor(h, MurmurK(k)), 13), <<0, 5>>), MurmurN)

\* The state after the first n blocks.  (The comparison makes the model
\* checker compute each intermediate state before the next block.)
RECURSIVE MurmurBody(_, _, _)
MurmurBody(d, i, h) ==
    IF h \in {h} /\ 4 * i + 4 > Len(d) THEN h
    ELSE MurmurBody(d, i + 1,
                    MurmurRound(h, WordLE(SubSeq(d, 4 * i + 1, 4 * i + 4))))

MurmurTail(d, h) ==
    LET n == Len(d) % 4
        t == SubSeq(d, Len(d) - n + 1, Len(d))
        k == <<IF n >= 3 THEN t[3] ELSE 0,
               (IF n >= 2 THEN t[2] * 256 ELSE 0) + (IF n >= 1 THEN t[1] ELSE 0)>>
    IN  IF n = 0 THEN h ELSE WXor(h, MurmurK(k))

MurmurFmix(h) ==
    LET h1 == WXor(h, WShr(h, 16))
        h2 == WMul(h1, MurmurF1)
        h3 == WXor(h2, WShr(h2, 13))
        h4 == WMul(h3, MurmurF2)
    IN  WXor(h4, WShr(h4, 16))

Murmur3(d, seed) ==
    LET h == MurmurTail(d, MurmurBody(d, 0, seed))
    IN  MurmurFmix(WXor(h, <<Len(d) \div 65536, Len(d) % 65536>>))

\* decrypt_db.py murmur(d): the signed 32-bit hash with Telegram's seed.
murmur(d) == WSigned(Murmur3(d, MurmurSeed))

----------------------------------------------------------------------------
(* decrypt_db.py: tempkey_parse, from the decrypted plaintext on *)

\* struct.unpack('<i', b)[0]
UnpackI(b) ==
    b[1] + 256 * b[2] + 65536 * b[3]
      + 16777216 * (IF b[4] >= 128 THEN b[4] - 256 ELSE b[4])

\* A bug tempkey_parse could have: non-zero padding treated as a failure.
tempkey_parse_pad_fatal(data) ==
    LET dbKey  == Slice(data, 0, 32)
        dbSalt == Slice(data, 32, 48)
        dbHash == UnpackI(Slice(data, 48, 52))
        dbPad  == Slice(data, 52, Len(data))
        warn   == Len(dbPad) # 12 \/ AnyByte(dbPad)
        calcHash == murmur(dbKey \o dbSalt)
    IN  IF dbHash # calcHash \/ warn
        THEN [status |-> "raised", error |-> <<"Hash mismatch", dbHash, calcHash>>,
              warn |-> warn]
        ELSE [status |-> "ok", dbKey |-> dbKey, dbSalt |-> dbSalt, warn |-> warn]

tempkey_parse(data) ==
    LET dbKey  == Slice(data, 0, 32)
        dbSalt == Slice(data, 32, 48)
        dbHash == UnpackI(Slice(data, 48, 52))
        dbPad  == Slice(data, 52, Len(data))
        warn   == Len(dbPad) # 12 \/ AnyByte(dbPad)
        calcHash == murmur(dbKey \o dbSalt)
    IN  IF dbHash # calcHash
        THEN [status |-> "raised", error |-> <<"Hash mismatch", dbHash, calcHash>>,
              warn |-> warn]
        ELSE [status |-> "ok", dbKey |-> dbKey, dbSalt |-> dbSalt, warn |-> warn]

----------------------------------------------------------------------------
(* Python values.  Each carries its type, so that values of different     *)
(* types compare unequal: None, bool, int, float (its eight bytes), str   *)
(* (code points), list, tuple and dict (a function from str keys).        *)

PyNone      == [py |-> "None"]
PyBool(b)   == [py |-> "bool", v |-> b]
PyInt(n)    == [py |-> "int", v |-> n]
PyFloat(b)  == [py |-> "float", v |-> b]
PyStr(s)    == [py |-> "str", v |-> s]
PyList(s)   == [py |-> "list", v |-> s]
PyTuple(s)  == [py |-> "tuple", v |-> s]
PyDict(f)   == [py |-> "dict", v |-> f]
PyEnum(t)   == [py |-> "ValueType", v |-> t]

EmptyDict == [k \in {} |-> PyNone]

\* d[k] = v on a dict: a later assignment to the same key replaces the value.
DictSet(d, k, v) == [x \in (DOMAIN d) \cup {k} |-> IF x = k THEN v ELSE d[x]]

\* bytes.hex(): two lower-case hex digits per byte, as code points.
HexDigit(n) == IF n < 10 THEN 48 + n ELSE 87 + n

Hex(b) ==
    [i \in 1..(2 * Len(b)) |->
        IF i % 2 = 1 THEN HexDigit(b[(i + 1) \div 2] \div 16)
        ELSE HexDigit(b[i \div 2] % 16)]

\* bytes.decode('utf-8', errors='replace') on the bytes of the model, which
\* are ASCII or bytes that start no UTF-8 sequence (0xFF): each of the
\* latter becomes U+FFFD.
DecodeUtf8(b) == [i \in 1..Len(b) |-> IF b[i] < 128 THEN b[i] ELSE 65533]

----------------------------------------------------------------------------
(* decrypt_db.py: tempkey_pragma *)

\* f"PRAGMA key=\"x'{key}'\";" around the hex of the key: the text in
\* front of the hex digits and the text after them.
PragmaHead == <<80, 82, 65, 71, 77, 65, 32, 107, 101, 121, 61, 34, 120, 39>>
PragmaTail == <<39, 34, 59>>

\* A bug tempkey_pragma could have: the salt left out of the key string.
tempkey_pragma_key_only(dbKey, dbSalt) == PragmaHead \o Hex(dbKey) \o PragmaTail

\* key = binascii.hexlify(dbKey+dbSalt).decode('utf-8')
tempkey_pragma(dbKey, dbSalt) == PragmaHead \o Hex(dbKey \o dbSalt) \o PragmaTail

----------------------------------------------------------------------------
(* extract_messages.py: class byteutil over io.BytesIO.  A reader is the  *)
(* buffer and the cursor pos (the number of bytes consumed).  A read      *)
(* returns [ok, v, pos] or, when it raises, [ok = FALSE, err, pos].       *)

Ok(v, pos)      == [ok |-> TRUE, v |-> v, pos |-> pos]
Raise(err, pos) == [ok |-> FALSE, err |-> err, pos |-> pos]

MapOk(r, F(_)) == IF r.ok THEN Ok(F(r.v), r.pos) ELSE r

\* What follows a read that did not raise.
Bind(r, F(_)) == IF r.ok THEN F(r) ELSE r

\* io.BytesIO.read(n): at most n bytes, all the rest when n is negative.
BufRead(buf, pos, n) ==
    LET end == IF n < 0 \/ n > Len(buf) - pos THEN Len(buf) ELSE pos + n
    IN  Ok(SubSeq(buf, pos + 1, end), end)

\* Little-endian bytes as an integer; the last byte carries the sign.
RECURSIVE UnpackLE(_, _)
UnpackLE(b, signed) ==
    IF Len(b) = 1
    THEN (IF signed /\ b[1] >= 128 THEN b[1] - 256 ELSE b[1])
    ELSE b[1] + 256 * UnpackLE(Tail(b), signed)

\* Big-endian bytes as an integer; the first byte carries the sign.
RECURSIVE UnpackBE(_, _)
UnpackBE(b, signed) ==
    IF Len(b) = 1
    THEN (IF signed /\ b[1] >= 128 THEN b[1] - 256 ELSE b[1])
    ELSE b[Len(b)] + 256 * UnpackBE(SubSeq(b, 1, Len(b) - 1), signed)

\* if len(data) < struct.calcsize(fmt): raise EOFError
NotEnough(data, size) ==
    IF Len(data.v) < size THEN Raise("EOFError", data.pos) ELSE data

read_fmt(buf, pos, size) == NotEnough(BufRead(buf, pos, size), size)

read_int8(buf, pos)   == MapOk(read_fmt(buf, pos, 1), LAMBDA b : UnpackLE(b, TRUE))
read_uint8(buf, pos)  == MapOk(read_fmt(buf, pos, 1), LAMBDA b : UnpackLE(b, FALSE))
read_int32(buf, pos)  == MapOk(read_fmt(buf, pos, 4), LAMBDA b : UnpackLE(b, TRUE))
read_uint32(buf, pos) == MapOk(read_fmt(buf, pos, 4), LAMBDA b : UnpackLE(b, FALSE))
read_int64(buf, pos)  == MapOk(read_fmt(buf, pos, 8), LAMBDA b : UnpackLE(b, TRUE))
read_double(buf, pos) == read_fmt(buf, pos, 8)

read_bytes(buf, pos) ==
    Bind(read_int32(buf, pos), LAMBDA slen : BufRead(buf, slen.pos, slen.v))

read_str(buf, pos) == MapOk(read_bytes(buf, pos), DecodeUtf8)

read_short_bytes(buf, pos) ==
    Bind(read_uint8(buf, pos), LAMBDA slen : BufRead(buf, slen.pos, slen.v))

read_short_str(buf, pos) == MapOk(read_short_bytes(buf, pos), DecodeUtf8)

----------------------------------------------------------------------------
(* extract_messages.py: class PostboxDecoder *)

ValueType ==
    [Int32 |-> 0, Int64 |-> 1, Bool |-> 2, Double |-> 3, String |-> 4,
     Object |-> 5, Int32Array |-> 6, Int64Array |-> 7, ObjectArray |-> 8,
     ObjectDictionary |-> 9, Bytes |-> 10, Nil |-> 11, StringArray |-> 12,
     BytesArray |-> 13]

ValueTypes == 0..13

\* PostboxDecoder.registry: no class of the script registers a decoder.
registry == {}

StrType   == <<64, 116, 121, 112, 101>>     \* '@type'
StrTypeND == <<116, 121, 112, 101>>         \* 'type'
StrData   == <<100, 97, 116, 97>>           \* 'data'

\* A bug _iter_kv could have: no seek, the scan goes on from the cursor.
IterSeek_missing(pos) == pos

\* _iter_kv begins with self.bio.buf.seek(0, io.SEEK_SET).
IterSeek(pos) == 0

\* A bug readValue could have: an unknown tag byte read as Nil.
UnknownValueType_as_nil(tag, pos) == Ok(<<PyEnum(11), PyNone>>, pos)

\* ValueType(byte) for a byte that is no member of the enum raises ValueError.
UnknownValueType(tag, pos) == Raise("ValueError", pos)

RECURSIVE readValue(_, _, _)
RECURSIVE readObject(_, _, _)
RECURSIVE ReadList(_, _, _, _, _, _)
RECURSIVE IterLoop(_, _, _, _)

\* One element of an array value, by the kind of the array.
ReadItem(buf, pos, kind, decode) ==
    CASE kind = "int32"  -> MapOk(read_int32(buf, pos), PyInt)
      [] kind = "int64"  -> MapOk(read_int64(buf, pos), PyInt)
      [] kind = "str"    -> MapOk(read_str(buf, pos), PyStr)
      [] kind = "hex"    -> MapOk(read_bytes(buf, pos), LAMBDA b : PyStr(Hex(b)))
      [] kind = "object" -> readObject(buf, pos, decode)
      [] kind = "pair"   ->
            Bind(readObject(buf, pos, decode),
                 LAMBDA k : MapOk(readObject(buf, k.pos, decode),
                                  LAMBDA v : PyTuple(<<k.v, v>>)))

\* [read() for _ in range(alen)]: nothing when alen is not positive.
ReadList(buf, pos, alen, kind, decode, acc) ==
    IF alen <= 0 THEN Ok(PyList(acc), pos)
    ELSE Bind(ReadItem(buf, pos, kind, decode),
              LAMBDA r : ReadList(buf, r.pos, alen - 1, kind, decode,
                                  Append(acc, r.v)))

\* A bug readValue could have: a negative count taken for its magnitude.
ReadArray_magnitude(buf, pos, kind, decode) ==
    Bind(read_int32(buf, pos),
         LAMBDA alen : ReadList(buf, alen.pos,
                                IF alen.v < 0 THEN 0 - alen.v ELSE alen.v,
                                kind, decode, <<>>))

ReadArray(buf, pos, kind, decode) ==
    Bind(read_int32(buf, pos),
         LAMBDA alen : ReadList(buf, alen.pos, alen.v, kind, decode, <<>>))

\* One step of the generator _iter_kv at cursor pos: it stops at the end of
\* the buffer, yields (key, valueType, value), or raises.
IterNext(buf, pos, decode) ==
    IF pos >= Len(buf) THEN [ok |-> TRUE, stop |-> TRUE, pos |-> pos]
    ELSE Bind(read_short_str(buf, pos),
              LAMBDA key :
                 Bind(readValue(buf, key.pos, decode),
                      LAMBDA tv : [ok |-> TRUE, stop |-> FALSE, pos |-> tv.pos,
                                   v |-> <<PyStr(key.v), tv.v[1], tv.v[2]>>]))

\* The generator run to its end from cursor pos: every entry it yields, or
\* the error it raises after the entries in `yielded`.
IterCont(buf, decode, acc, n) ==
    IF ~n.ok THEN [ok |-> FALSE, err |-> n.err, pos |-> n.pos, yielded |-> acc]
    ELSE IF n.stop THEN Ok(acc, n.pos)
    ELSE IterLoop(buf, n.pos, decode, Append(acc, n.v))

IterLoop(buf, pos, decode, acc) ==
    IterCont(buf, decode, acc, IterNext(buf, pos, decode))

iter_kv(buf, pos, decode) == IterLoop(buf, IterSeek(pos), decode, <<>>)

\* {k: v for k, t, v in ...}: a repeated key keeps its last value.
RECURSIVE DictOf(_, _)
DictOf(entries, d) ==
    IF entries = <<>> THEN d
    ELSE DictOf(Tail(entries), DictSet(d, entries[1][1].v, entries[1][3]))

\* The value of an object with no registered decoder, from the scan of its
\* payload.
GenericObject(typeHash, pos, inner) ==
    IF ~inner.ok THEN Raise(inner.err, pos)
    ELSE Ok(PyDict(DictSet(DictOf(inner.v, EmptyDict), StrType, PyInt(typeHash))), pos)

ObjectOf(typeHash, data, decode) ==
    IF ~decode
    THEN Ok(PyDict(DictSet(DictSet(EmptyDict, StrTypeND, PyInt(typeHash)),
                           StrData, PyStr(Hex(data.v)))),
            data.pos)
    ELSE IF typeHash \in registry
    THEN Raise("registered decoder", data.pos)
    ELSE GenericObject(typeHash, data.pos, iter_kv(data.v, 0, TRUE))

readObject(buf, pos, decode) ==
    Bind(read_int32(buf, pos),
         LAMBDA typeHash :
            Bind(read_int32(buf, typeHash.pos),
                 LAMBDA dataLen :
                    ObjectOf(typeHash.v, BufRead(buf, dataLen.pos, dataLen.v), decode)))

ArrayKind(tag) ==
    CASE tag = ValueType.Int32Array -> "int32"
      [] tag = ValueType.Int64Array -> "int64"
      [] tag = ValueType.ObjectArray -> "object"
      [] tag = ValueType.ObjectDictionary -> "pair"
      [] tag = ValueType.StringArray -> "str"
      [] tag = ValueType.BytesArray -> "hex"

\* The branches of readValue, after the tag byte.
ReadBody(buf, pos, tag, decode) ==
    CASE tag = ValueType.Int32  -> MapOk(read_int32(buf, pos), PyInt)
      [] tag = ValueType.Int64  -> MapOk(read_int64(buf, pos), PyInt)
      [] tag = ValueType.Bool   -> MapOk(read_uint8(buf, pos), LAMBDA b : PyBool(b # 0))
      [] tag = ValueType.Double -> MapOk(read_double(buf, pos), PyFloat)
      [] tag = ValueType.String -> MapOk(read_str(buf, pos), PyStr)
      [] tag = ValueType.Object -> readObject(buf, pos, decode)
      [] tag = ValueType.Bytes  ->
            MapOk(read_bytes(buf, pos),
                  LAMBDA b : IF b # <<>> THEN PyStr(Hex(b)) ELSE PyNone)
      [] tag = ValueType.Nil    -> Ok(PyNone, pos)
      [] OTHER -> ReadArray(buf, pos, ArrayKind(tag), decode)

readValue(buf, pos, decode) ==
    Bind(read_uint8(buf, pos),
         LAMBDA tag :
            IF tag.v \notin ValueTypes THEN UnknownValueType(tag.v, tag.pos)
            ELSE MapOk(ReadBody(buf, tag.pos, tag.v, decode),
                       LAMBDA v : <<PyEnum(tag.v), v>>))

\* get(valueType, key): the loop over the generator from cursor pos.  NoType
\* stands for valueType None.
NoType == -1

RECURSIVE GetLoop(_, _, _, _, _)

\* A bug get could have: a Nil entry under the key passed over.
GetCont_nil_skipped(buf, valueType, key, decode, n) ==
    IF ~n.ok THEN n
    ELSE IF n.stop THEN Ok(<<PyNone, PyNone>>, n.pos)
    ELSE IF n.v[1] # PyStr(key) THEN GetLoop(buf, n.pos, valueType, key, decode)
    ELSE IF valueType = NoType THEN Ok(<<n.v[2], n.v[3]>>, n.pos)
    ELSE IF n.v[2].v = valueType THEN Ok(<<n.v[2], n.v[3]>>, n.pos)
    ELSE GetLoop(buf, n.pos, valueType, key, decode)

GetCont(buf, valueType, key, decode, n) ==
    IF ~n.ok THEN n
    ELSE IF n.stop THEN Ok(<<PyNone, PyNone>>, n.pos)
    ELSE IF n.v[1] # PyStr(key) THEN GetLoop(buf, n.pos, valueType, key, decode)
    ELSE IF valueType = NoType THEN Ok(<<n.v[2], n.v[3]>>, n.pos)
    ELSE IF n.v[2].v = valueType THEN Ok(<<n.v[2], n.v[3]>>, n.pos)
    ELSE IF n.v[2].v = ValueType.Nil THEN Ok(<<n.v[2], PyNone>>, n.pos)
    ELSE GetLoop(buf, n.pos, valueType, key, decode)

GetLoop(buf, pos, valueType, key, decode) ==
    GetCont(buf, valueType, key, decode, IterNext(buf, pos, decode))

get(buf, pos, valueType, key, decode) ==
    GetLoop(buf, IterSeek(pos), valueType, key, decode)

\* Python truth of a decoded value (`if v:`).
Truthy(v) ==
    CASE v.py = "None" -> FALSE
      [] v.py = "bool" -> v.v
      [] v.py = "int"  -> v.v # 0
      [] v.py \in {"dict", "record"} -> DOMAIN v.v # {}
      [] OTHER         -> v.v # <<>>

decodeObjectForKey(buf, pos, key) ==
    MapOk(get(buf, pos, ValueType.Object, key, TRUE),
          LAMBDA tv : IF Truthy(tv[2]) THEN tv[2] ELSE PyNone)

StrRoot == <<95>>     \* '_'

decodeRootObject(buf, pos) == decodeObjectForKey(buf, pos, StrRoot)

----------------------------------------------------------------------------
(* extract_messages.py: the message decoder.  The dicts the script builds *)
(* with literal keys are records of the model.                            *)

PyRecord(r) == [py |-> "record", v |-> r]

\* r[name] = v on a dict with literal keys.
Put(r, name, v) == [k \in (DOMAIN r) \cup {name} |-> IF k = name THEN v ELSE r[k]]

\* `member in flags` for an IntFlag member of one bit.
HasBit(flags, bit) == (flags \div bit) % 2 = 1

\* FwdInfoFlags(int8): the enum keeps unknown bits; a negative value is
\* taken modulo the next power of two that holds it, at least 64.
FwdInfoFlags(n) ==
    IF n >= 0 THEN n
    ELSE IF n >= -64 THEN n + 64
    ELSE IF n = -128 THEN 128
    ELSE n + 128

\* A field of the fixed layout, by its struct format.
ReadKind(buf, pos, kind) ==
    CASE kind = "int8"   -> MapOk(read_int8(buf, pos), PyInt)
      [] kind = "uint8"  -> MapOk(read_uint8(buf, pos), PyInt)
      [] kind = "int32"  -> MapOk(read_int32(buf, pos), PyInt)
      [] kind = "uint32" -> MapOk(read_uint32(buf, pos), PyInt)
      [] kind = "int64"  -> MapOk(read_int64(buf, pos), PyInt)
      [] kind = "str"    -> MapOk(read_str(buf, pos), PyStr)

Field(name, bit, kind) == [name |-> name, bit |-> bit, kind |-> kind]

\* `x = None; if Member in flags: x = buf.read_...()`, field after field in
\* the order of the code.  Bit 0 marks a field read whatever the flags.
RECURSIVE ReadFields(_, _, _, _, _)
ReadFields(buf, pos, flags, fields, acc) ==
    IF fields = <<>> THEN Ok(acc, pos)
    ELSE IF fields[1].bit # 0 /\ ~HasBit(flags, fields[1].bit)
    THEN ReadFields(buf, pos, flags, Tail(fields), Put(acc, fields[1].name, PyNone))
    ELSE Bind(ReadKind(buf, pos, fields[1].kind),
              LAMBDA x : ReadFields(buf, x.pos, flags, Tail(fields),
                                    Put(acc, fields[1].name, x.v)))

\* What follows a step that did not raise: r.v is the record so far.
Then(r, F(_, _)) == IF r.ok THEN F(r.v, r.pos) ELSE r

FwdInfoHead ==
    <<Field("authorId", 0, "int64"), Field("date", 0, "int32")>>

FwdInfoFields ==
    <<Field("sourceId", 2, "int64"),
      Field("sourceMessagePeerId", 4, "int64"),
      Field("sourceMessageNamespace", 4, "int32"),
      Field("sourceMessageIdId", 4, "int32"),
      Field("signature", 8, "str"),
      Field("psaType", 16, "str"),
      Field("flags", 32, "int32")>>

read_intermediate_fwd_info(buf, pos) ==
    Bind(read_int8(buf, pos),
         LAMBDA infoFlags :
            IF FwdInfoFlags(infoFlags.v) = 0 THEN Ok(PyNone, infoFlags.pos)
            ELSE MapOk(ReadFields(buf, infoFlags.pos, FwdInfoFlags(infoFlags.v),
                                  FwdInfoHead \o FwdInfoFields, <<>>),
                       PyRecord))

StrRaw == <<114, 97, 119>>     \* 'raw'

\* A bug the item loops could have: no guard around the decoding of an item.
ItemExcept_reraise(data, r) == r

\* try: ...decodeRootObject() / except: {'raw': data.hex()}
ItemExcept(data, r) ==
    IF r.ok THEN r ELSE Ok(PyDict(DictSet(EmptyDict, StrRaw, PyStr(Hex(data)))), r.pos)

DecodeItem(data) == ItemExcept(data, decodeRootObject(data, 0))

\* for _ in range(count): data = buf.read_bytes(); items.append(...)
RECURSIVE ReadItems(_, _, _, _)
ReadItems(buf, pos, count, acc) ==
    IF count <= 0 THEN Ok(PyList(acc), pos)
    ELSE Bind(read_bytes(buf, pos),
              LAMBDA data :
                 Bind(DecodeItem(data.v),
                      LAMBDA item : ReadItems(buf, data.pos, count - 1,
                                              Append(acc, item.v))))

MediaIdFields == <<Field("namespace", 0, "int32"), Field("id", 0, "int64")>>

RECURSIVE ReadMediaIds(_, _, _, _)
ReadMediaIds(buf, pos, count, acc) ==
    IF count <= 0 THEN Ok(PyList(acc), pos)
    ELSE Bind(ReadFields(buf, pos, 0, MediaIdFields, <<>>),
              LAMBDA id : ReadMediaIds(buf, id.pos, count - 1,
                                       Append(acc, PyRecord(id.v))))

\* A count, then that many elements read by Read.
Counted(buf, pos, Read(_, _, _, _)) ==
    Bind(read_int32(buf, pos), LAMBDA count : Read(buf, count.pos, count.v, <<>>))

\* A str the script writes literally (a member name, an error text).
PyLit(s) == [py |-> "literal", v |-> s]

Member(name, bit) == [name |-> name, bit |-> bit]

MessageFlags ==
    <<Member("Unsent", 1), Member("Failed", 2), Member("Incoming", 4),
      Member("TopIndexable", 16), Member("Sending", 32),
      Member("CanBeGroupedIntoFeed", 64), Member("WasScheduled", 128),
      Member("CountedAsIncoming", 256)>>

MessageTags ==
    <<Member("PhotoOrVideo", 1), Member("File", 2), Member("Music", 4),
      Member("WebPage", 8), Member("VoiceOrInstantVideo", 16),
      Member("UnseenPersonalMessage", 32), Member("LiveLocation", 64),
      Member("Gif", 128), Member("Photo", 256), Member("Video", 512),
      Member("Pinned", 1024)>>

\* [m.name for m in Enum if m in flags]
RECURSIVE NameList(_, _)
NameList(flags, members) ==
    IF members = <<>> THEN <<>>
    ELSE (IF HasBit(flags, members[1].bit) THEN <<PyLit(members[1].name)>> ELSE <<>>)
            \o NameList(flags, Tail(members))

MessageHead ==
    <<Field("stableId", 0, "uint32"), Field("stableVersion", 0, "uint32"),
      Field("dataFlags", 0, "uint8")>>

\* A bug the decoder could have: groupingKey read before globalTags.
MessageDataFlags_swapped ==
    <<Field("globallyUniqueId", 1, "int64"),
      Field("groupingKey", 4, "int64"),
      Field("globalTags", 2, "uint32"),
      Field("groupInfoStableId", 8, "uint32"),
      Field("localTags", 16, "uint32"),
      Field("threadId", 32, "int64")>>

MessageDataFlags ==
    <<Field("globallyUniqueId", 1, "int64"),
      Field("globalTags", 2, "uint32"),
      Field("groupingKey", 4, "int64"),
      Field("groupInfoStableId", 8, "uint32"),
      Field("localTags", 16, "uint32"),
      Field("threadId", 32, "int64")>>

MessageMasks == <<Field("flags", 0, "uint32"), Field("tags", 0, "uint32")>>

\* authorId = None; hasAuthorId = buf.read_int8(); if hasAuthorId == 1: ...
ReadAuthorId(buf, pos, m) ==
    Bind(read_int8(buf, pos),
         LAMBDA hasAuthorId :
            IF hasAuthorId.v = 1
            THEN MapOk(read_int64(buf, hasAuthorId.pos),
                       LAMBDA authorId : Put(m, "authorId", PyInt(authorId)))
            ELSE Ok(Put(m, "authorId", PyNone), hasAuthorId.pos))

\* The dict the function returns for a record it decoded.
MessageDict(m) ==
    PyRecord([stableId |-> m.stableId,
              stableVersion |-> m.stableVersion,
              globallyUniqueId |-> m.globallyUniqueId,
              authorId |-> m.authorId,
              text |-> m.text,
              flags |-> PyList(NameList(m.flags.v, MessageFlags)),
              tags |-> PyList(NameList(m.tags.v, MessageTags)),
              forwarded |-> m.forwarded,
              attributes |-> m.attributes,
              embeddedMedia |-> m.embeddedMedia,
              referencedMediaIds |-> m.referencedMediaIds,
              groupingKey |-> m.groupingKey,
              threadId |-> m.threadId,
              globalTags |-> m.globalTags,
              localTags |-> m.localTags])

\* The body of the try block after the record type, step by step.
ReadHead(v, pos)    == ReadFields(v, pos, 0, MessageHead, <<>>)
ReadGated(v, pos)   == Then(ReadHead(v, pos), LAMBDA m, p :
                           ReadFields(v, p, m.dataFlags.v, MessageDataFlags, m))
ReadMasks(v, pos)   == Then(ReadGated(v, pos), LAMBDA m, p :
                           ReadFields(v, p, 0, MessageMasks, m))
ReadFwd(v, pos)     == Then(ReadMasks(v, pos), LAMBDA m, p :
                           MapOk(read_intermediate_fwd_info(v, p),
                                 LAMBDA fwd_info : Put(m, "forwarded", fwd_info)))
ReadAuthor(v, pos)  == Then(ReadFwd(v, pos), LAMBDA m, p : ReadAuthorId(v, p, m))
ReadText(v, pos)    == Then(ReadAuthor(v, pos), LAMBDA m, p :
                           ReadFields(v, p, 0, <<Field("text", 0, "str")>>, m))
ReadAttributes(v, pos) ==
    Then(ReadText(v, pos), LAMBDA m, p :
        MapOk(Counted(v, p, ReadItems), LAMBDA a : Put(m, "attributes", a)))
ReadEmbeddedMedia(v, pos) ==
    Then(ReadAttributes(v, pos), LAMBDA m, p :
        MapOk(Counted(v, p, ReadItems), LAMBDA a : Put(m, "embeddedMedia", a)))
ReadReferencedMediaIds(v, pos) ==
    Then(ReadEmbeddedMedia(v, pos), LAMBDA m, p :
        MapOk(Counted(v, p, ReadMediaIds), LAMBDA a : Put(m, "referencedMediaIds", a)))

\* The try block: None for a record type other than 0, else the dict.
MessageTry(v) ==
    Bind(read_int8(v, 0),
         LAMBDA typ :
            IF typ.v # 0 THEN Ok(PyNone, typ.pos)
            ELSE MapOk(ReadReferencedMediaIds(v, typ.pos), MessageDict))

\* str(e) of the exceptions the decoders raise.
ErrorText(err) ==
    IF err = "EOFError" THEN "Not enough data" ELSE err

\* v.hex()[:200]
RawHexLen == 200

\* A bug the function could have: EOFError escapes the handler.
MessageExcept_narrow(v, r) ==
    IF r.ok \/ r.err = "EOFError" THEN r
    ELSE Ok(PyRecord([error |-> PyLit(ErrorText(r.err)),
                      raw_hex |-> PyStr(Slice(Hex(v), 0, RawHexLen))]), r.pos)

\* except Exception as e: return {'error': str(e), 'raw_hex': v.hex()[:200]}
MessageExcept(v, r) ==
    IF r.ok THEN r
    ELSE Ok(PyRecord([error |-> PyLit(ErrorText(r.err)),
                      raw_hex |-> PyStr(Slice(Hex(v), 0, RawHexLen))]), r.pos)

read_intermediate_message_complete(v) == MessageExcept(v, MessageTry(v))

----------------------------------------------------------------------------
(* extract_messages.py: MessageIndex, get_peer_info and the body of the   *)
(* loop of extract_complete_chat                                          *)

ReadBE(buf, pos, size) ==
    MapOk(read_fmt(buf, pos, size), LAMBDA b : UnpackBE(b, TRUE))

\* MessageIndex.from_bytes: peerId, namespace, timestamp, id, big-endian.
from_bytes(b) ==
    Bind(ReadBE(b, 0, 8), LAMBDA peerId :
    Bind(ReadBE(b, peerId.pos, 4), LAMBDA namespace :
    Bind(ReadBE(b, namespace.pos, 4), LAMBDA timestamp :
    MapOk(ReadBE(b, timestamp.pos, 4), LAMBDA mid :
        [peerId |-> peerId.v, namespace |-> namespace.v,
         id |-> mid, timestamp |-> timestamp.v]))))

\* str(n) of an int, as code points.
RECURSIVE DecimalDigits(_)
DecimalDigits(n) ==
    IF n < 10 THEN <<48 + n>> ELSE Append(DecimalDigits(n \div 10), 48 + (n % 10))

DecimalStr(n) == IF n < 0 THEN <<45>> \o DecimalDigits(-n) ELSE DecimalDigits(n)

StrFn == <<102, 110>>     \* 'fn'
StrLn == <<108, 110>>     \* 'ln'
StrUn == <<117, 110>>     \* 'un'
StrPh == <<112, 104>>     \* 'ph'

\* data.get(key, '')
DictGet(d, key, default) == IF key \in DOMAIN d THEN d[key] ELSE default

\* The entry get_peer_info caches for a peer id the cache does not hold:
\* the unknown sentinel when table t2 has no row for str(peer_id), the peer
\* when the row decodes to a dict, else the parse-error sentinel (the
\* decoder raised, or decodeRootObject returned None and data.get raised).
PeerEntry(t2, peer_id, data) ==
    IF DecimalStr(peer_id) \notin DOMAIN t2
    THEN PyRecord([id |-> PyInt(peer_id), unknown |-> PyBool(TRUE)])
    ELSE IF data.ok /\ data.v.py = "dict"
    THEN PyRecord([id |-> PyInt(peer_id),
                   firstName |-> DictGet(data.v.v, StrFn, PyStr(<<>>)),
                   lastName  |-> DictGet(data.v.v, StrLn, PyStr(<<>>)),
                   username  |-> DictGet(data.v.v, StrUn, PyStr(<<>>)),
                   phone     |-> DictGet(data.v.v, StrPh, PyStr(<<>>))])
    ELSE PyRecord([id |-> PyInt(peer_id), parseError |-> PyBool(TRUE)])

PeerData(t2, peer_id) ==
    IF DecimalStr(peer_id) \in DOMAIN t2
    THEN decodeRootObject(t2[DecimalStr(peer_id)], 0)
    ELSE Ok(PyNone, 0)

\* A bug get_peer_info could have: the cache not consulted.
PeerLookup_uncached(t2, peer_id, cache) ==
    [v |-> PeerEntry(t2, peer_id, PeerData(t2, peer_id)),
     cache |-> Put(cache, peer_id, PeerEntry(t2, peer_id, PeerData(t2, peer_id))),
     queried |-> TRUE]

\* get_peer_info(con, peer_id) for an int peer_id: the value returned, the
\* cache afterwards, and whether table t2 was queried.
PeerLookup(t2, peer_id, cache) ==
    IF peer_id \in DOMAIN cache
    THEN [v |-> cache[peer_id], cache |-> cache, queried |-> FALSE]
    ELSE [v |-> PeerEntry(t2, peer_id, PeerData(t2, peer_id)),
          cache |-> Put(cache, peer_id, PeerEntry(t2, peer_id, PeerData(t2, peer_id))),
          queried |-> TRUE]

\* get_peer_info(con, peer_id) for any peer_id: None gives None.
get_peer_info(t2, peer_id, cache) ==
    IF peer_id.py = "int" THEN PeerLookup(t2, peer_id.v, cache)
    ELSE [v |-> PyNone, cache |-> cache, queried |-> FALSE]

\* datetime.datetime.fromtimestamp(ts) in a process whose local time is
\* UTC: the civil date of day number ts div 86400 and the time of day.
CivilFromDays(days) ==
    LET z   == days + 719468
        era == z \div 146097
        doe == z - era * 146097
        yoe == (doe - (doe \div 1460) + (doe \div 36524) - (doe \div 146096)) \div 365
        doy == doe - (365 * yoe + (yoe \div 4) - (yoe \div 100))
        mp  == (5 * doy + 2) \div 153
        d   == doy - ((153 * mp + 2) \div 5) + 1
        m   == IF mp < 10 THEN mp + 3 ELSE mp - 9
    IN  [year |-> yoe + era * 400 + (IF m <= 2 THEN 1 ELSE 0), month |-> m, day |-> d]

fromtimestamp(ts) ==
    [date |-> CivilFromDays(ts \div 86400),
     hour |-> (ts % 86400) \div 3600,
     minute |-> ((ts % 86400) % 3600) \div 60,
     second |-> ts % 60]

\* '%02d' and '%04d'
Pad2(n) == <<48 + (n \div 10), 48 + (n % 10)>>
Pad4(n) == Pad2(n \div 100) \o Pad2(n % 100)

\* ts.strftime('%Y-%m-%d'), ts.strftime('%H:%M:%S'), ts.isoformat()
StrDate(t) == Pad4(t.date.year) \o <<45>> \o Pad2(t.date.month) \o <<45>> \o Pad2(t.date.day)
StrTime(t) == Pad2(t.hour) \o <<58>> \o Pad2(t.minute) \o <<58>> \o Pad2(t.second)
isoformat(t) == StrDate(t) \o <<84>> \o StrTime(t)

\* msg.get(key, default) on the dict read_intermediate_message_complete
\* returned (a message record or an error record).
MsgGet(msg, key, default) == IF key \in DOMAIN msg.v THEN msg.v[key] ELSE default

\* msg['forwarded']['authorInfo'] = get_peer_info(...) when the message has
\* a forward block with a non-zero authorId.
HasFwdAuthor(msg) ==
    /\ Truthy(MsgGet(msg, "forwarded", PyNone))
    /\ Truthy(MsgGet(msg, "forwarded", PyNone).v.authorId)

Forwarded(msg, info) ==
    IF HasFwdAuthor(msg)
    THEN PyRecord(Put(msg.v.forwarded.v, "authorInfo", info))
    ELSE MsgGet(msg, "forwarded", PyNone)

\* The dict message_data.
MessageData(idx, msg, author_info, fwd_info) ==
    PyRecord(
        [id |-> PyInt(idx.id),
         namespace |-> PyInt(idx.namespace),
         timestamp |-> PyInt(idx.timestamp),
         datetime |-> PyStr(isoformat(fromtimestamp(idx.timestamp))),
         date |-> PyStr(StrDate(fromtimestamp(idx.timestamp))),
         time |-> PyStr(StrTime(fromtimestamp(idx.timestamp))),
         direction |-> IF \E i \in 1..Len(MsgGet(msg, "flags", PyList(<<>>)).v) :
                             MsgGet(msg, "flags", PyList(<<>>)).v[i] = PyLit("Incoming")
                       THEN PyLit("received") ELSE PyLit("sent"),
         author |-> author_info,
         text |-> MsgGet(msg, "text", PyStr(<<>>)),
         flags |-> MsgGet(msg, "flags", PyList(<<>>)),
         tags |-> MsgGet(msg, "tags", PyList(<<>>)),
         forwarded |-> Forwarded(msg, fwd_info),
         attributes |-> MsgGet(msg, "attributes", PyList(<<>>)),
         embeddedMedia |-> MsgGet(msg, "embeddedMedia", PyList(<<>>)),
         referencedMediaIds |-> MsgGet(msg, "referencedMediaIds", PyList(<<>>)),
         metadata |-> PyRecord([stableId |-> MsgGet(msg, "stableId", PyNone),
                                globallyUniqueId |-> MsgGet(msg, "globallyUniqueId", PyNone),
                                groupingKey |-> MsgGet(msg, "groupingKey", PyNone),
                                threadId |-> MsgGet(msg, "threadId", PyNone)])])

\* The two peer lookups of one message, the author first.
AuthorLookup(t2, msg, cache) ==
    IF Truthy(MsgGet(msg, "authorId", PyNone))
    THEN get_peer_info(t2, msg.v.authorId, cache)
    ELSE [v |-> PyNone, cache |-> cache, queried |-> FALSE]

FwdLookup(t2, msg, cache) ==
    IF HasFwdAuthor(msg)
    THEN get_peer_info(t2, msg.v.forwarded.v.authorId, cache)
    ELSE [v |-> PyNone, cache |-> cache, queried |-> FALSE]

\* What the loop does with a message that is not None.
Emit(t2, idx, msg, author, fwd) ==
    [emit |-> TRUE, cache |-> fwd.cache,
     entry |-> MessageData(idx, msg, author.v, fwd.v)]

EmitMessage(t2, idx, msg, cache, author) ==
    Emit(t2, idx, msg, author, FwdLookup(t2, msg, author.cache))

Skip(cache) == [emit |-> FALSE, cache |-> cache]

\* A bug the loop could have: a record of another type given an entry.
SkipNone_emitting(t2, idx, msg, cache) ==
    EmitMessage(t2, idx, PyRecord([error |-> PyLit("unsupported")]), cache,
                [v |-> PyNone, cache |-> cache, queried |-> FALSE])

\* if msg is None: continue
SkipNone(t2, idx, msg, cache) == Skip(cache)

HandleMessage(t2, idx, msg, cache) ==
    IF msg = PyNone THEN SkipNone(t2, idx, msg, cache)
    ELSE EmitMessage(t2, idx, msg, cache, AuthorLookup(t2, msg, cache))

\* The body of the loop for one row of t7: key decode, peer filter, value
\* decode, enrichment; `except Exception: continue` skips a row whose key
\* or value raises.
HandleResult(t2, idx, r, cache) ==
    IF ~r.ok THEN Skip(cache) ELSE HandleMessage(t2, idx, r.v, cache)

HandleIndex(t2, peer_id, idx, value, cache) ==
    IF ~idx.ok THEN Skip(cache)
    ELSE IF idx.v.peerId # peer_id THEN Skip(cache)
    ELSE HandleResult(t2, idx.v, read_intermediate_message_complete(value), cache)

HandleRow(t2, peer_id, row, cache) ==
    HandleIndex(t2, peer_id, from_bytes(row[1]), row[2], cache)

\* json.dump: a tuple is written as a list; the other values keep their
\* structure.
RECURSIVE JsonOf(_)
JsonOf(x) ==
    CASE x.py \in {"list", "tuple"} -> PyList([i \in 1..Len(x.v) |-> JsonOf(x.v[i])])
      [] x.py \in {"dict", "record"} -> [x EXCEPT !.v = [k \in DOMAIN x.v |-> JsonOf(x.v[k])]]
      [] OTHER -> x

\* SELECT key, value FROM t7 ORDER BY key: blobs in byte order, a proper
\* prefix first.
BytesLess(a, b) ==
    \E i \in 1..(Len(a) + 1) :
        /\ \A j \in 1..(i - 1) : j <= Len(b) /\ a[j] = b[j]
        /\ \/ i = Len(a) + 1 /\ Len(b) >= i
           \/ i <= Len(a) /\ i <= Len(b) /\ a[i] < b[i]

RECURSIVE OrderBy(_)
OrderBy(keys) ==
    IF keys = {} THEN <<>>
    ELSE LET first == CHOOSE k \in keys : \A o \in keys \ {k} : BytesLess(k, o)
         IN  <<first>> \o OrderBy(keys \ {first})

\* The rows of a table (a function from key to value) as the cursor gives
\* them.
SelectOrdered(table) ==
    [i \in 1..Cardinality(DOMAIN table) |->
        <<OrderBy(DOMAIN table)[i], table[OrderBy(DOMAIN table)[i]]>>]

----------------------------------------------------------------------------
(* Key containers: the plaintexts the decryption of a container can give *)

\* The four little-endian bytes of a signed 32-bit integer (the writer's
\* struct.pack('<i', n)).
PackI(n) ==
    <<n % 256, (n \div 256) % 256, (n \div 65536) % 256, (n \div 16777216) % 256>>

MaxSeed == 3

KeyOf(a)  == [j \in 1..32 |-> (a * j + 7) % 256]
SaltOf(a) == [j \in 1..16 |-> (a * j * j + 250) % 256]

\* The checksum field: the one the writer stored, or a damaged one.
HashFields(h) ==
    {PackI(h),
     [PackI(h) EXCEPT ![1] = (@ + 1) % 256],
     [PackI(h) EXCEPT ![4] = (@ + 128) % 256],
     <<0, 0, 0, 0>>}

Paddings == {Bytes(12, 0), [Bytes(12, 0) EXCEPT ![1] = 1], Bytes(12, 255)}

KeyContainers ==
    UNION {UNION {{KeyOf(a) \o SaltOf(b) \o f \o p :
                      f \in HashFields(murmur(KeyOf(a) \o SaltOf(b))), p \in Paddings} :
                  b \in 1..MaxSeed} : a \in 1..MaxSeed}

----------------------------------------------------------------------------
(* The wire format, as the writer of a buffer encodes it.  An in-memory    *)
(* tagged value is [tag, val]; an object is [hash, payload] with payload a *)
(* sequence of entries <<key bytes, tagged value>>.  A value with a tag    *)
(* outside 0..13 stands for a damaged tag byte in front of the encoding of *)
(* val.                                                                    *)

TV(tag, val)  == [tag |-> tag, val |-> val]
TObj(h, ents) == [hash |-> h, payload |-> ents]

RECURSIVE PackLE(_, _)
PackLE(n, k) == IF k = 0 THEN <<>> ELSE <<n % 256>> \o PackLE(n \div 256, k - 1)

RECURSIVE EncValue(_)
RECURSIVE EncEntries(_)

EncBlob(b) == PackLE(Len(b), 4) \o b

EncObject(o) ==
    LET p == EncEntries(o.payload)
    IN  PackLE(o.hash, 4) \o PackLE(Len(p), 4) \o p

EncItem(kind, x) ==
    CASE kind = "int32"  -> PackLE(x, 4)
      [] kind = "int64"  -> PackLE(x, 8)
      [] kind = "blob"   -> EncBlob(x)
      [] kind = "object" -> EncObject(x)
      [] kind = "pair"   -> EncObject(x[1]) \o EncObject(x[2])

RECURSIVE EncItems(_, _)
EncItems(kind, xs) ==
    IF xs = <<>> THEN <<>> ELSE EncItem(kind, xs[1]) \o EncItems(kind, Tail(xs))

EncArray(kind, xs) == PackLE(Len(xs), 4) \o EncItems(kind, xs)

EncBody(tag, val) ==
    CASE tag = ValueType.Int32  -> PackLE(val, 4)
      [] tag = ValueType.Int64  -> PackLE(val, 8)
      [] tag = ValueType.Bool   -> <<IF val THEN 1 ELSE 0>>
      [] tag = ValueType.Double -> val
      [] tag = ValueType.String -> EncBlob(val)
      [] tag = ValueType.Object -> EncObject(val)
      [] tag = ValueType.Int32Array  -> EncArray("int32", val)
      [] tag = ValueType.Int64Array  -> EncArray("int64", val)
      [] tag = ValueType.ObjectArray -> EncArray("object", val)
      [] tag = ValueType.ObjectDictionary -> EncArray("pair", val)
      [] tag = ValueType.Bytes  -> EncBlob(val)
      [] tag = ValueType.Nil    -> <<>>
      [] tag = ValueType.StringArray -> EncArray("blob", val)
      [] tag = ValueType.BytesArray  -> EncArray("blob", val)

EncValue(tv) ==
    IF tv.tag \in ValueTypes THEN <<tv.tag>> \o EncBody(tv.tag, tv.val)
    ELSE <<tv.tag>> \o Tail(EncValue(tv.val))

EncEntries(ents) ==
    IF ents = <<>> THEN <<>>
    ELSE <<Len(ents[1][1])>> \o ents[1][1] \o EncValue(ents[1][2])
           \o EncEntries(Tail(ents))

\* Whether a damaged tag byte stands at a value position of the value.
RECURSIVE HasBadTag(_)
RECURSIVE AnyBadTag(_)
ObjBad(o) == AnyBadTag(o.payload)
HasBadTag(tv) ==
    IF tv.tag \notin ValueTypes THEN TRUE
    ELSE CASE tv.tag = ValueType.Object -> ObjBad(tv.val)
           [] tv.tag = ValueType.ObjectArray ->
                 \E i \in 1..Len(tv.val) : ObjBad(tv.val[i])
           [] tv.tag = ValueType.ObjectDictionary ->
                 \E i \in 1..Len(tv.val) : ObjBad(tv.val[i][1]) \/ ObjBad(tv.val[i][2])
           [] OTHER -> FALSE
AnyBadTag(ents) == \E i \in 1..Len(ents) : HasBadTag(ents[i][2])

----------------------------------------------------------------------------
(* The buffers of the model *)

KeyRoot == <<95>>     \* '_'
KeyA    == <<97>>     \* 'a'

ObjInt32    == TObj(7, <<<<KeyA, TV(0, 1)>>>>)
ObjInt64    == TObj(7, <<<<KeyA, TV(1, 1)>>>>)
ObjNoBytes  == TObj(7, <<<<KeyA, TV(10, <<>>)>>>>)
ObjNil      == TObj(7, <<<<KeyA, TV(11, <<>>)>>>>)
ObjTwice    == TObj(7, <<<<KeyA, TV(0, 1)>>, <<KeyA, TV(0, 2)>>>>)
ObjTypeKey  == TObj(7, <<<<<<64, 116, 121, 112, 101>>, TV(0, 9)>>>>)
ObjNested   == TObj(-3, <<<<KeyRoot, TV(5, ObjInt32)>>>>)
ObjBadTag   == TObj(7, <<<<KeyRoot, TV(4, <<104>>)>>, <<KeyA, TV(14, TV(11, <<>>))>>>>)

Entries ==
    {<<KeyA, TV(0, -2)>>,
     <<KeyRoot, TV(1, 5)>>,
     <<KeyA, TV(2, TRUE)>>,
     <<KeyA, TV(3, <<0, 0, 0, 0, 0, 0, 248, 63>>)>>,
     <<KeyA, TV(4, <<104, 105>>)>>,
     <<KeyRoot, TV(4, <<>>)>>,
     <<KeyRoot, TV(5, ObjInt32)>>,
     <<KeyRoot, TV(5, ObjInt64)>>,
     <<KeyRoot, TV(5, ObjNoBytes)>>,
     <<KeyRoot, TV(5, ObjNil)>>,
     <<KeyA, TV(5, ObjTwice)>>,
     <<KeyA, TV(5, ObjTypeKey)>>,
     <<KeyRoot, TV(5, ObjNested)>>,
     <<KeyA, TV(6, <<1, -1>>)>>,
     <<KeyA, TV(6, <<>>)>>,
     <<KeyA, TV(7, <<7>>)>>,
     <<KeyA, TV(8, <<ObjInt32, ObjNil>>)>>,
     <<KeyA, TV(9, <<<<ObjInt32, ObjNested>>>>)>>,
     <<KeyA, TV(10, <<1, 255>>)>>,
     <<KeyRoot, TV(10, <<>>)>>,
     <<KeyRoot, TV(11, <<>>)>>,
     <<KeyA, TV(11, <<>>)>>,
     <<KeyA, TV(12, <<<<120>>, <<>>>>)>>,
     <<KeyA, TV(13, <<<<>>, <<9>>>>)>>,
     <<KeyA, TV(200, TV(0, 1))>>,
     <<KeyRoot, TV(5, ObjBadTag)>>,
     <<KeyA, TV(8, <<ObjInt32, ObjBadTag>>)>>}

MaxEntries == 2

RECURSIVE SeqsUpTo(_, _)
SeqsUpTo(S, n) ==
    IF n = 0 THEN {<<>>}
    ELSE LET shorter == SeqsUpTo(S, n - 1)
         IN  shorter \cup {Append(q, e) : q \in shorter, e \in S}

Sources == SeqsUpTo(Entries, MaxEntries)

\* The buffers a decoder is made over: the encoding of a source, or a proper
\* prefix of the encoding of a single entry.
Cuts(src) ==
    IF Len(src) = 1 THEN 0..Len(EncEntries(src)) ELSE {Len(EncEntries(src))}

GetTypes == {NoType, ValueType.Int32}

\* Buffers no writer makes: one entry under key 'a' whose array or
\* dictionary declares a count that is negative, or larger than the number
\* of bytes that follow it, and an object whose declared payload length is
\* negative or runs past the end of the buffer.
MaxInt32 == 2147483647

ArrayTags == {6, 7, 8, 9, 12, 13}

RawEntry(tag, body) == <<1, 97, tag>> \o body

TailEntry == EncEntries(<<<<KeyRoot, TV(0, 1)>>>>)

NegativeCounts ==
    {RawEntry(t, PackLE(c, 4) \o rest) :
        t \in ArrayTags, c \in {-1, -5}, rest \in {<<>>, TailEntry}}

ExcessCounts ==
    {RawEntry(t, PackLE(c, 4) \o rest) :
        t \in ArrayTags, c \in {1, MaxInt32}, rest \in {<<>>}}
    \cup {RawEntry(t, PackLE(c, 4) \o Bytes(8, 0)) :
            t \in ArrayTags, c \in {9, MaxInt32}}

LongPayloads ==
    {RawEntry(5, PackLE(7, 4) \o PackLE(n, 4) \o rest) :
        n \in {-1, -5, 7, MaxInt32}, rest \in {<<>>, TailEntry}}

GenBuffers ==
    UNION {{SubSeq(EncEntries(src), 1, cut) : cut \in 0..Len(EncEntries(src))} :
              src \in SeqsUpTo(Entries, 1)}
    \cup {EncEntries(src) : src \in Sources}
    \cup NegativeCounts \cup ExcessCounts \cup LongPayloads
GetKeys  == {KeyRoot, KeyA}

----------------------------------------------------------------------------
(* Message values, as the writer of table t7 encodes them.  A message is   *)
(* a record of the values of all fields; the flag bytes say which of them  *)
(* are written.  attributes and embeddedMedia are sequences of blobs.      *)

PackKind(kind, x) ==
    CASE kind \in {"int8", "uint8"}   -> PackLE(x, 1)
      [] kind \in {"int32", "uint32"} -> PackLE(x, 4)
      [] kind = "int64"               -> PackLE(x, 8)
      [] kind = "str"                 -> EncBlob(x)

RECURSIVE EncFields(_, _, _)
EncFields(flags, fields, m) ==
    IF fields = <<>> THEN <<>>
    ELSE (IF fields[1].bit = 0 \/ HasBit(flags, fields[1].bit)
          THEN PackKind(fields[1].kind, m[fields[1].name]) ELSE <<>>)
            \o EncFields(flags, Tail(fields), m)

RECURSIVE EncBlobs(_)
EncBlobs(bs) == IF bs = <<>> THEN <<>> ELSE EncBlob(bs[1]) \o EncBlobs(Tail(bs))

RECURSIVE EncMediaIds(_)
EncMediaIds(ids) ==
    IF ids = <<>> THEN <<>>
    ELSE PackLE(ids[1][1], 4) \o PackLE(ids[1][2], 8) \o EncMediaIds(Tail(ids))

EncFwdInfo(f) ==
    PackLE(f.infoFlags, 1)
        \o (IF FwdInfoFlags(f.infoFlags) = 0 THEN <<>>
            ELSE EncFields(FwdInfoFlags(f.infoFlags), FwdInfoHead \o FwdInfoFields, f))

EncMessage(m) ==
    PackLE(m.typ, 1)
        \o EncFields(0, MessageHead, m)
        \o EncFields(m.dataFlags, MessageDataFlags, m)
        \o EncFields(0, MessageMasks, m)
        \o EncFwdInfo(m.fwd)
        \o PackLE(m.hasAuthorId, 1)
        \o (IF m.hasAuthorId = 1 THEN PackLE(m.author, 8) ELSE <<>>)
        \o EncBlob(m.text)
        \o PackLE(Len(m.attributes), 4) \o EncBlobs(m.attributes)
        \o PackLE(Len(m.embeddedMedia), 4) \o EncBlobs(m.embeddedMedia)
        \o PackLE(Len(m.referencedMediaIds), 4) \o EncMediaIds(m.referencedMediaIds)

\* Item blobs: a root object, a buffer with no root object, a damaged tag
\* byte, an entry cut inside its integer, and the empty blob.
BlobObject   == EncEntries(<<<<KeyRoot, TV(5, ObjInt32)>>>>)
BlobNoRoot   == EncEntries(<<<<KeyA, TV(0, 1)>>>>)
BlobBadTag   == EncEntries(<<<<KeyRoot, TV(5, ObjBadTag)>>>>)
BlobCut      == SubSeq(EncEntries(<<<<KeyRoot, TV(1, 5)>>>>), 1, 6)
Blobs        == {BlobObject, BlobNoRoot, BlobBadTag, BlobCut, <<>>}

FwdBase ==
    [infoFlags |-> 0, authorId |-> 31, date |-> 1600000000, sourceId |-> 32,
     sourceMessagePeerId |-> 33, sourceMessageNamespace |-> 0,
     sourceMessageIdId |-> 34, signature |-> <<115>>, psaType |-> <<>>,
     flags |-> 1]

MessageBase ==
    [typ |-> 0, stableId |-> 5, stableVersion |-> 1, dataFlags |-> 0,
     globallyUniqueId |-> -2, globalTags |-> 3, groupingKey |-> 4,
     groupInfoStableId |-> 6, localTags |-> 7, threadId |-> 8,
     flags |-> 4, tags |-> 9, fwd |-> FwdBase, hasAuthorId |-> 1,
     author |-> 77, text |-> <<104, 105>>, attributes |-> <<>>,
     embeddedMedia |-> <<>>, referencedMediaIds |-> <<>>]

MaxItems == 2

\* A text longer than the part of a value an error record keeps.
LongText == Bytes(101, 120)

Messages ==
    {[MessageBase EXCEPT !.attributes = a, !.embeddedMedia = e] :
        a \in SeqsUpTo(Blobs, MaxItems), e \in SeqsUpTo(Blobs, 1)}
    \cup {[MessageBase EXCEPT !.dataFlags = d, !.fwd.infoFlags = f, !.hasAuthorId = h] :
            d \in {0, 21, 63, 66}, f \in {0, 1, 10, 62, -1, -64}, h \in {0, 1, 2}}
    \cup {[MessageBase EXCEPT !.typ = t, !.text = x, !.flags = fl, !.tags = tg,
                              !.referencedMediaIds = r] :
            t \in {0, 1, -1}, x \in {<<>>, LongText}, fl \in {0, 511},
            tg \in {0, 1536},
            r \in {<<>>, <<<<0, 0>>, <<1, -5>>>>}}

\* The values read: every prefix of the encoding of every message.
MessageCuts(m) == 0..Len(EncMessage(m))

----------------------------------------------------------------------------
(* Tables t7 and t2 of a plaintext database *)

\* struct.pack('>...'): the big-endian fields of a key of t7.
RECURSIVE PackBE(_, _)
PackBE(n, k) == IF k = 0 THEN <<>> ELSE PackBE(n \div 256, k - 1) \o <<n % 256>>

EncIndex(peerId, namespace, timestamp, mid) ==
    PackBE(peerId, 8) \o PackBE(namespace, 4) \o PackBE(timestamp, 4) \o PackBE(mid, 4)

\* Keys of two peers, one of them with a timestamp before 1970 and one too
\* short to be an index.
ScanKeys ==
    {EncIndex(1, 0, 1600000000, 1),
     EncIndex(1, 0, 1600000060, 2),
     EncIndex(1, 1, -86401, 3),
     EncIndex(2, 0, 1600000000, 4),
     <<0, 0, 0, 0, 0>>}

PeerBlob ==
    EncEntries(<<<<KeyRoot,
                   TV(5, TObj(9, <<<<StrFn, TV(4, <<65, 108>>)>>,
                                   <<StrPh, TV(4, <<49>>)>>>>))>>>>)

\* Peers 77, 31 and 32 have a row: a peer, a row with a damaged tag byte,
\* a row with no root object.  Peer 78 has none.
PeerTable ==
    [k \in {DecimalStr(77), DecimalStr(31), DecimalStr(32)} |->
        IF k = DecimalStr(77) THEN PeerBlob
        ELSE IF k = DecimalStr(31) THEN BlobBadTag
        ELSE BlobNoRoot]

\* Values: messages of type 0 (one forwarded, with an attribute that does
\* not decode; one of an author with no row), a record of another type,
\* and two values that do not decode.
ScanValues ==
    {EncMessage(MessageBase),
     EncMessage([MessageBase EXCEPT !.fwd.infoFlags = 2, !.hasAuthorId = 0,
                                    !.flags = 0, !.attributes = <<BlobBadTag>>]),
     EncMessage([MessageBase EXCEPT !.author = 78, !.fwd.infoFlags = 32,
                                    !.fwd.authorId = 32]),
     EncMessage([MessageBase EXCEPT !.typ = 1]),
     <<0>>,
     <<>>}

MaxRows == 2

\* The table t2 of another datastore: other peers under the same ids.
PeerBlob2 ==
    EncEntries(<<<<KeyRoot, TV(5, TObj(9, <<<<StrFn, TV(4, <<66, 111>>)>>>>))>>>>)

PeerTable2 == [k \in {DecimalStr(77), DecimalStr(78)} |-> PeerBlob2]

PeerTables == {PeerTable, PeerTable2}

\* The peer ids looked up: with a row, with rows that do not decode, with
\* no row.
PeerIds == {77, 31, 32, 78}

MaxSessions == 2

MaxCalls == 4

\* The tables t7 of at most MaxRows rows.
Tables ==
    UNION {[ks -> ScanValues] : ks \in {x \in SUBSET ScanKeys : Cardinality(x) <= MaxRows}}

ScanPeers == {1, 2}

----------------------------------------------------------------------------
(* One PostboxDecoder and the calls made on it, one after the other *)

DecInit ==
    /\ decSrc = <<>>
    /\ decCut = 0
    /\ decBuf = <<>>
    /\ decPos = 0
    /\ decCall = [op |-> "none"]
    /\ decResult = [ok |-> TRUE]

\* PostboxDecoder(data)
NewDecoder ==
    /\ decCall.op = "none"
    /\ \E src \in Sources : \E cut \in Cuts(src) :
          /\ decSrc' = src
          /\ decCut' = cut
          /\ decBuf' = SubSeq(EncEntries(src), 1, cut)
    /\ decPos' = 0
    /\ decCall' = [op |-> "new"]
    /\ decResult' = [ok |-> TRUE]
    /\ UNCHANGED OthersThanDec

\* A call on the decoder: its result is kept, and the cursor stays where the
\* call left it.
Called(call, r) ==
    /\ decCall.op # "none"
    /\ decCall' = call
    /\ decResult' = r
    /\ decPos' = r.pos
    /\ UNCHANGED <<decSrc, decCut, decBuf>>
    /\ UNCHANGED OthersThanDec

\* list(decoder._iter_kv())
Scan == Called([op |-> "scan", from |-> decPos], iter_kv(decBuf, decPos, TRUE))

Get ==
    \E t \in GetTypes, k \in GetKeys :
        Called([op |-> "get", from |-> decPos, valueType |-> t, key |-> k],
               get(decBuf, decPos, t, k, TRUE))

DecodeObjectForKey ==
    \E k \in GetKeys :
        Called([op |-> "decodeObjectForKey", from |-> decPos, key |-> k],
               decodeObjectForKey(decBuf, decPos, k))

DecodeRootObject ==
    Called([op |-> "decodeRootObject", from |-> decPos],
           decodeRootObject(decBuf, decPos))

DecNext ==
    \/ NewDecoder
    \/ Scan
    \/ Get
    \/ DecodeObjectForKey
    \/ DecodeRootObject

----------------------------------------------------------------------------
(* One generator _iter_kv(), advanced one next() at a time *)

GenInit == gen = [state |-> "none"]

\* What the successive next(it) of a generator over buf give from cursor
\* pos on: the loop of _iter_kv unrolled, one IterNext per round, up to the
\* round that leaves the loop or raises.  The buffer determines them all.
RECURSIVE GenRounds(_, _, _)

GenRoundsCont(buf, acc, n) ==
    IF ~n.ok \/ n.stop THEN Append(acc, n)
    ELSE GenRounds(buf, n.pos, Append(acc, n))

GenRounds(buf, pos, acc) == GenRoundsCont(buf, acc, IterNext(buf, pos, TRUE))

\* decoder = PostboxDecoder(data); it = decoder._iter_kv(): the generator
\* seeks to offset 0 when it starts.  gen.rounds are the rounds of its loop
\* not yet run.
GenStart ==
    /\ gen.state = "none"
    /\ \E buf \in GenBuffers :
          gen' = [state |-> "running", buf |-> buf, pos |-> IterSeek(0),
                  yielded |-> 0, last |-> <<>>,
                  rounds |-> GenRounds(buf, IterSeek(0), <<>>)]
    /\ UNCHANGED OthersThanGen

\* What next(it) leaves after a round n: the generator exhausted, the
\* exception it raised, or the entry it yielded with the cursor behind it.
GenAfter(n) ==
    IF ~n.ok THEN [gen EXCEPT !.state = "raised", !.pos = n.pos, !.rounds = Tail(@)]
    ELSE IF n.stop THEN [gen EXCEPT !.state = "stopped", !.rounds = Tail(@)]
    ELSE [gen EXCEPT !.pos = n.pos, !.yielded = @ + 1, !.last = n.v,
                     !.rounds = Tail(@)]

\* next(it): one round of the loop.
GenStep ==
    /\ gen.state = "running"
    /\ gen' = GenAfter(Head(gen.rounds))
    /\ UNCHANGED OthersThanGen

GenNext == GenStart \/ GenStep

----------------------------------------------------------------------------
(* read_intermediate_message_complete on the values of table t7 *)

MsgInit ==
    /\ msgSrc = MessageBase
    /\ msgCut = 0
    /\ msgValue = <<>>
    /\ msgResult = [called |-> FALSE, fetched |-> FALSE]

\* The next value of the table: the encoding of a message, whole or cut.
FetchValue ==
    /\ ~msgResult.fetched
    /\ \E m \in Messages : \E cut \in MessageCuts(m) :
          /\ msgSrc' = m
          /\ msgCut' = cut
          /\ msgValue' = SubSeq(EncMessage(m), 1, cut)
    /\ msgResult' = [called |-> FALSE, fetched |-> TRUE]
    /\ UNCHANGED OthersThanMsg

\* msg = read_intermediate_message_complete(value)
ReadMessage ==
    /\ msgResult.fetched
    /\ ~msgResult.called
    /\ msgResult' = [called |-> TRUE, fetched |-> TRUE,
                     r |-> read_intermediate_message_complete(msgValue)]
    /\ UNCHANGED <<msgSrc, msgCut, msgValue>>
    /\ UNCHANGED OthersThanMsg

MsgNext == FetchValue \/ ReadMessage

----------------------------------------------------------------------------
(* extract_messages.py: extract_complete_chat over a plaintext database *)

NoDb == [exists |-> FALSE]

ScanInit ==
    /\ plainDb = NoDb
    /\ scanState = "idle"
    /\ scanPeer = 0
    /\ cur = [rows |-> <<>>, fetched |-> 0]
    /\ total_processed = 0
    /\ extracted = 0
    /\ messages = <<>>
    /\ peerCache = <<>>
    /\ emittedFrom = <<>>
    /\ outFile = [written |-> FALSE]
    /\ sessions = 0
    /\ cacheFrom = <<>>

\* A plaintext database at db_path, whatever made it.
PlainDb ==
    /\ ~plainDb.exists
    /\ \E t7 \in Tables : plainDb' = [exists |-> TRUE, t7 |-> t7, t2 |-> PeerTable]
    /\ UNCHANGED scanVars
    /\ UNCHANGED OthersThanScan

\* extract_complete_chat(db_path, peer_id, output_file) up to the loop:
\* connect, messages = [], the SELECT ... ORDER BY key, the counters.
Extract ==
    /\ plainDb.exists
    /\ scanState = "idle"
    /\ \E p \in ScanPeers : scanPeer' = p
    /\ scanState' = "scanning"
    /\ cur' = [rows |-> SelectOrdered(plainDb.t7), fetched |-> 0]
    /\ total_processed' = 0
    /\ extracted' = 0
    /\ messages' = <<>>
    /\ emittedFrom' = <<>>
    /\ sessions' = sessions + 1
    /\ UNCHANGED <<plainDb, peerCache, outFile, cacheFrom>>
    /\ UNCHANGED OthersThanScan

\* A later call of extract_complete_chat in the same process, on another
\* plaintext database and another output file: the default argument `cache`
\* of get_peer_info is the dict the function was defined with.
ExtractAgain ==
    /\ scanState = "saved"
    /\ sessions < MaxSessions
    /\ \E t7 \in Tables, t2 \in PeerTables \ {plainDb.t2} :
          plainDb' = [exists |-> TRUE, t7 |-> t7, t2 |-> t2]
    /\ \E p \in ScanPeers : scanPeer' = p
    /\ scanState' = "scanning"
    /\ cur' = [rows |-> SelectOrdered(plainDb'.t7), fetched |-> 0]
    /\ total_processed' = 0
    /\ extracted' = 0
    /\ messages' = <<>>
    /\ emittedFrom' = <<>>
    /\ outFile' = [written |-> FALSE]
    /\ sessions' = sessions + 1
    /\ UNCHANGED <<peerCache, cacheFrom>>
    /\ UNCHANGED OthersThanScan

\* One turn of `for key, value in cur`, with what HandleRow decides.
ScanStep(h) ==
    /\ cur' = [cur EXCEPT !.fetched = @ + 1]
    /\ total_processed' = total_processed + 1
    /\ peerCache' = h.cache
    /\ messages' = IF h.emit THEN Append(messages, h.entry) ELSE messages
    /\ extracted' = IF h.emit THEN extracted + 1 ELSE extracted
    /\ emittedFrom' = IF h.emit THEN Append(emittedFrom, cur.fetched + 1) ELSE emittedFrom
    /\ cacheFrom' = [id \in DOMAIN h.cache |->
                        IF id \in DOMAIN peerCache THEN cacheFrom[id] ELSE sessions]

ScanRow ==
    /\ scanState = "scanning"
    /\ cur.fetched < Len(cur.rows)
    /\ ScanStep(HandleRow(plainDb.t2, scanPeer, cur.rows[cur.fetched + 1], peerCache))
    /\ UNCHANGED <<plainDb, scanState, scanPeer, outFile, sessions>>
    /\ UNCHANGED OthersThanScan

\* After the loop: json.dump(messages, f), return messages.
SaveOutput ==
    /\ scanState = "scanning"
    /\ cur.fetched = Len(cur.rows)
    /\ scanState' = "saved"
    /\ outFile' = [written |-> TRUE, json |-> JsonOf(PyList(messages))]
    /\ UNCHANGED <<plainDb, scanPeer, cur, total_processed, extracted, messages,
                   peerCache, emittedFrom, sessions, cacheFrom>>
    /\ UNCHANGED OthersThanScan

ScanNext == PlainDb \/ Extract \/ ScanRow \/ SaveOutput

SessionsNext == PlainDb \/ Extract \/ ScanRow \/ SaveOutput \/ ExtractAgain

----------------------------------------------------------------------------
(* The loop of extract_complete_chat on a database and a platform on     *)
(* which handling a record can raise                                     *)

\* The file at db_path is whatever sqlite opens: table t2 may be missing
\* (the query of get_peer_info raises OperationalError), a value of t7 may
\* be stored as TEXT (io.BytesIO(str) raises TypeError).  On Windows
\* datetime.fromtimestamp raises OSError for a time before 1970.
DbFaults(t7) ==
    {[noT2 |-> a, preEpochRaises |-> b, text |-> {}] : a \in BOOLEAN, b \in BOOLEAN}
    \cup {[noT2 |-> FALSE, preEpochRaises |-> FALSE, text |-> {k}] : k \in DOMAIN t7}

AnyDb ==
    /\ ~plainDb.exists
    /\ \E t7 \in Tables : \E f \in DbFaults(t7) :
          plainDb' = [exists |-> TRUE, t7 |-> t7,
                      t2 |-> IF f.noT2 THEN <<>> ELSE PeerTable,
                      noT2 |-> f.noT2, preEpochRaises |-> f.preEpochRaises,
                      text |-> f.text]
    /\ UNCHANGED scanVars
    /\ UNCHANGED OthersThanScan

\* except Exception as e: continue
Caught(cache) == [emit |-> FALSE, cache |-> cache]

\* A bug the loop could have: the peer filter left out.
OfPeer_any(idx, peer_id) == TRUE

\* if idx.peerId != peer_id: continue
OfPeer(idx, peer_id) == idx.peerId = peer_id

\* The body of the loop from the second lookup on: a lookup that queries a
\* missing table raises, and so does the conversion of a timestamp the
\* platform refuses; what get_peer_info cached before stays cached.
LoopEmit(db, idx, msg, author, fwd) ==
    IF db.noT2 /\ fwd.queried THEN Caught(author.cache)
    ELSE IF db.preEpochRaises /\ idx.timestamp < 0 THEN Caught(fwd.cache)
    ELSE Emit(db.t2, idx, msg, author, fwd)

LoopAuthor(db, idx, msg, cache, author) ==
    IF db.noT2 /\ author.queried THEN Caught(cache)
    ELSE LoopEmit(db, idx, msg, author, FwdLookup(db.t2, msg, author.cache))

LoopMessage(db, idx, r, cache) ==
    IF ~r.ok THEN Caught(cache)
    ELSE IF r.v = PyNone THEN Skip(cache)
    ELSE LoopAuthor(db, idx, r.v, cache, AuthorLookup(db.t2, r.v, cache))

LoopValue(db, idx, row, cache) ==
    IF row[1] \in db.text THEN Caught(cache)
    ELSE LoopMessage(db, idx, read_intermediate_message_complete(row[2]), cache)

LoopIndex(db, peer_id, idx, row, cache) ==
    IF ~idx.ok THEN Caught(cache)
    ELSE IF ~OfPeer(idx.v, peer_id) THEN Skip(cache)
    ELSE LoopValue(db, idx.v, row, cache)

LoopBody(db, peer_id, row, cache) ==
    LoopIndex(db, peer_id, from_bytes(row[1]), row, cache)

\* One turn of `for key, value in cur` on such a database.
ScanRowAny ==
    /\ scanState = "scanning"
    /\ cur.fetched < Len(cur.rows)
    /\ ScanStep(LoopBody(plainDb, scanPeer, cur.rows[cur.fetched + 1], peerCache))
    /\ UNCHANGED <<plainDb, scanState, scanPeer, outFile, sessions>>
    /\ UNCHANGED OthersThanScan

LoopNext == AnyDb \/ Extract \/ ScanRowAny \/ SaveOutput

----------------------------------------------------------------------------
(* get_peer_info called directly, any number of times *)

PeerInit ==
    /\ peerCall = [n |-> 0]
    /\ peerQueries = [id \in PeerIds |-> 0]

\* A plaintext database whose table t7 is empty: the peers are all that
\* get_peer_info reads.
PeerDb ==
    /\ ~plainDb.exists
    /\ \E t2 \in PeerTables : plainDb' = [exists |-> TRUE, t7 |-> <<>>, t2 |-> t2]
    /\ UNCHANGED <<scanVars, peerVars>>
    /\ UNCHANGED OthersThanPeer

\* info = get_peer_info(con, peer_id), for a peer id or None.
GetPeerInfo ==
    /\ plainDb.exists
    /\ peerCall.n < MaxCalls
    /\ \E peer_id \in {PyInt(id) : id \in PeerIds} \cup {PyNone} :
        \E r \in {get_peer_info(plainDb.t2, peer_id, peerCache)} :
          /\ peerCall' = [n |-> peerCall.n + 1, peer_id |-> peer_id,
                          v |-> r.v, queried |-> r.queried]
          /\ peerCache' = r.cache
          /\ peerQueries' =
                IF r.queried
                THEN [peerQueries EXCEPT ![peer_id.v] = @ + 1]
                ELSE peerQueries
          /\ cacheFrom' = [id \in DOMAIN peerCache' |->
                              IF id \in DOMAIN peerCache THEN cacheFrom[id] ELSE sessions]
    /\ UNCHANGED <<plainDb, scanState, scanPeer, cur, total_processed, extracted,
                   messages, emittedFrom, outFile, sessions>>
    /\ UNCHANGED OthersThanPeer

PeerNext == PeerDb \/ GetPeerInfo

----------------------------------------------------------------------------
(* decrypt_db.py main: read and decrypt the container, then parse it *)

KeyInit ==
    /\ keyData = <<>>
    /\ keyResult = [status |-> "none"]
    /\ keyOut = <<>>

\* main reads the file; the cipher gives the plaintext `data`.
DecryptContainer ==
    /\ keyData = <<>>
    /\ \E d \in KeyContainers : keyData' = d
    /\ UNCHANGED <<keyResult, keyOut>>
    /\ UNCHANGED OthersThanKey

\* the body of tempkey_parse on the plaintext
TempkeyParse ==
    /\ keyData # <<>>
    /\ keyResult.status = "none"
    /\ keyResult' = tempkey_parse(keyData)
    /\ UNCHANGED <<keyData, keyOut>>
    /\ UNCHANGED OthersThanKey

\* print(tempkey_pragma(dbKey, dbSalt)): reached only when tempkey_parse
\* returned.
PrintPragma ==
    /\ keyResult.status = "ok"
    /\ keyOut = <<>>
    /\ keyOut' = tempkey_pragma(keyResult.dbKey, keyResult.dbSalt)
    /\ UNCHANGED <<keyData, keyResult>>
    /\ UNCHANGED OthersThanKey

KeyNext == DecryptContainer \/ TempkeyParse \/ PrintPragma

----------------------------------------------------------------------------
----------------------------------------------------------------------------
(* create_media_index.py: parse_media_ids and extract_referenced_media_id. *)
(* Their arguments are values of messages.json: dicts (str keys), lists,   *)
(* str, int and None.  A call returns [ok, v] or, when it raises,          *)
(* [ok = FALSE, err].                                                      *)

Return(v)    == [ok |-> TRUE, v |-> v]
Throw(err)   == [ok |-> FALSE, err |-> err]

KeyR == <<114>>     \* 'r'
KeyD == <<100>>     \* 'd'
KeyI == <<105>>     \* 'i'
KeyS == <<115>>     \* 's'
KeyF == <<102>>     \* 'f'

StrPhotoSize == <<116, 101, 108, 101, 103, 114, 97, 109, 45, 99, 108, 111, 117,
                  100, 45, 112, 104, 111, 116, 111, 45, 115, 105, 122, 101, 45>>
StrDocument  == <<116, 101, 108, 101, 103, 114, 97, 109, 45, 99, 108, 111, 117,
                  100, 45, 100, 111, 99, 117, 109, 101, 110, 116, 45>>
StrDash      == <<45>>
StrX         == <<120>>                \* 'x'
StrNoneText  == <<78, 111, 110, 101>>  \* 'None'

\* `key in x`: a key of a dict, an element of a list, a substring of a str;
\* TypeError for a value that is no container.
Contains(x, key) ==
    CASE x.py = "dict" -> Return(key \in DOMAIN x.v)
      [] x.py = "list" -> Return(\E i \in 1..Len(x.v) : x.v[i] = PyStr(key))
      [] x.py = "str"  ->
            Return(\E i \in 1..Len(x.v) :
                      /\ i + Len(key) - 1 <= Len(x.v)
                      /\ SubSeq(x.v, i, i + Len(key) - 1) = key)
      [] OTHER -> Throw("TypeError")

\* x[key] for a str key: the value of a dict; TypeError on a list or a str.
Subscript(x, key) ==
    IF x.py = "dict" THEN Return(x.v[key]) ELSE Throw("TypeError")

\* f"{x}" for the values the resources of the model hold: str, int, None.
Format(x) ==
    CASE x.py = "str"  -> x.v
      [] x.py = "int"  -> DecimalStr(x.v)
      [] x.py = "None" -> StrNoneText

\* The identifier of a photo resource: dc, photo_id, size.
PhotoId(res) ==
    PyStr(StrPhotoSize \o Format(res.v[KeyD]) \o StrDash \o Format(res.v[KeyI])
            \o StrDash \o Format(DictGet(res.v, KeyS, PyStr(StrX))))

\* if 'd' in res and 'i' in res: ...append(...), for res = rep['r'].
PhotoOf(res) ==
    IF ~Contains(res, KeyD).ok THEN Throw("TypeError")
    ELSE IF ~Contains(res, KeyD).v THEN Return(<<>>)
    ELSE IF ~Contains(res, KeyI).v THEN Return(<<>>)
    ELSE IF ~Subscript(res, KeyD).ok THEN Throw("TypeError")
    ELSE Return(<<PhotoId(res)>>)

\* if isinstance(rep, dict) and 'r' in rep: ...
RepIds(rep) ==
    IF rep.py = "dict" /\ KeyR \in DOMAIN rep.v THEN PhotoOf(rep.v[KeyR])
    ELSE Return(<<>>)

\* for rep in media_obj['r']: the identifiers so far, until a rep raises.
RECURSIVE PhotoLoop(_, _)
PhotoLoop(reps, media_ids) ==
    IF reps = <<>> THEN Return(media_ids)
    ELSE IF ~RepIds(reps[1]).ok THEN RepIds(reps[1])
    ELSE PhotoLoop(Tail(reps), media_ids \o RepIds(reps[1]).v)

\* The document resource of media_obj['r'], a dict.
DocumentOf(res) ==
    IF KeyD \in DOMAIN res.v /\ KeyF \in DOMAIN res.v
    THEN <<PyStr(StrDocument \o Format(res.v[KeyD]) \o StrDash \o Format(res.v[KeyF]))>>
    ELSE <<>>

parse_media_ids(media_obj) ==
    IF media_obj.py # "dict" THEN Return(PyList(<<>>))
    ELSE IF KeyR \notin DOMAIN media_obj.v THEN Return(PyList(<<>>))
    ELSE IF media_obj.v[KeyR].py = "list"
    THEN IF PhotoLoop(media_obj.v[KeyR].v, <<>>).ok
         THEN Return(PyList(PhotoLoop(media_obj.v[KeyR].v, <<>>).v))
         ELSE PhotoLoop(media_obj.v[KeyR].v, <<>>)
    ELSE IF media_obj.v[KeyR].py = "dict"
    THEN Return(PyList(DocumentOf(media_obj.v[KeyR])))
    ELSE Return(PyList(<<>>))

\* ref.get(name) on an entry of referencedMediaIds, a dict whose keys the
\* script writes literally.
RefGet(ref, name) == IF name \in DOMAIN ref.v THEN ref.v[name] ELSE PyNone

\* A bug extract_referenced_media_id could have: a test of truth where the
\* code tests `is not None`.
extract_referenced_media_id_truthy(ref) ==
    IF ref.py # "record" THEN Return(PyNone)
    ELSE IF Truthy(RefGet(ref, "namespace")) /\ Truthy(RefGet(ref, "id"))
    THEN Return(PyStr(StrDocument \o Format(RefGet(ref, "namespace")) \o StrDash
                        \o Format(RefGet(ref, "id"))))
    ELSE Return(PyNone)

extract_referenced_media_id(ref) ==
    IF ref.py # "record" THEN Return(PyNone)
    ELSE IF RefGet(ref, "namespace") # PyNone /\ RefGet(ref, "id") # PyNone
    THEN Return(PyStr(StrDocument \o Format(RefGet(ref, "namespace")) \o StrDash
                        \o Format(RefGet(ref, "id"))))
    ELSE Return(PyNone)

\* The values of messages.json the two functions are called on.  A resource
\* is a dict with some of the keys d, i, s, f, or a value that is no dict.
ResourceValues ==
    [d |-> {PyInt(2), PyNone}, i |-> {PyInt(5), PyStr(<<55>>)},
     s |-> {PyStr(<<121>>)}, f |-> {PyInt(-9)}]

ResourceKey(k) ==
    CASE k = KeyD -> "d" [] k = KeyI -> "i" [] k = KeyS -> "s" [] k = KeyF -> "f"

DictResources ==
    UNION {{PyDict(g) : g \in {h \in [K -> UNION {ResourceValues[n] : n \in DOMAIN ResourceValues}] :
                                  \A k \in K : h[k] \in ResourceValues[ResourceKey(k)]}} :
              K \in SUBSET {KeyD, KeyI, KeyS, KeyF}}

OtherResources ==
    {PyNone, PyInt(5), PyStr(<<100, 105>>), PyStr(<<120>>),
     PyList(<<PyStr(KeyD), PyStr(KeyI)>>), PyList(<<PyStr(KeyD)>>), PyList(<<>>)}

Resources == DictResources \cup OtherResources

Reps ==
    {PyDict(DictSet(EmptyDict, KeyR, res)) : res \in Resources}
        \cup {PyDict(EmptyDict), PyDict(DictSet(EmptyDict, KeyD, PyInt(2))),
              PyInt(1), PyNone}

MaxReps == 2

MediaObjects ==
    {PyDict(DictSet(EmptyDict, KeyR, PyList(l))) : l \in SeqsUpTo(Reps, MaxReps)}
        \cup {PyDict(DictSet(EmptyDict, KeyR, res)) : res \in Resources}
        \cup {PyDict(EmptyDict), PyDict(DictSet(EmptyDict, KeyD, PyInt(2))),
              PyNone, PyList(<<>>), PyStr(KeyR)}

\* The (namespace, id) pairs a message carries, and the entry of
\* referencedMediaIds the message decoder makes of each.
RefPairs == {<<n, i>> : n \in {0, 1, -1}, i \in {0, 7, -5}}

DecodedRef(pair) ==
    read_intermediate_message_complete(
        EncMessage([MessageBase EXCEPT !.referencedMediaIds = <<pair>>])
    ).v.v.referencedMediaIds.v[1]

OtherRefs ==
    {PyNone, PyList(<<>>), PyRecord([namespace |-> PyInt(1)]),
     PyRecord([id |-> PyInt(1)]),
     PyRecord([namespace |-> PyNone, id |-> PyInt(1)])}

RefArgs == {DecodedRef(pair) : pair \in RefPairs} \cup OtherRefs

MediaInit ==
    /\ mediaCall = [fn |-> "none"]
    /\ mediaResult = Return(PyNone)

\* media_ids = parse_media_ids(media)
ParseMediaIds ==
    /\ mediaCall.fn = "none"
    /\ \E media \in MediaObjects :
          /\ mediaCall' = [fn |-> "parse_media_ids", arg |-> media]
          /\ mediaResult' = parse_media_ids(media)
    /\ UNCHANGED OthersThanMedia

\* media_id = extract_referenced_media_id(ref)
ExtractReferencedMediaId ==
    /\ mediaCall.fn = "none"
    /\ \E ref \in RefArgs :
          /\ mediaCall' = [fn |-> "extract_referenced_media_id", arg |-> ref]
          /\ mediaResult' = extract_referenced_media_id(ref)
    /\ UNCHANGED OthersThanMedia

MediaNext == ParseMediaIds \/ ExtractReferencedMediaId

----------------------------------------------------------------------------
(* decrypt_database.py and recover.py *)

\* The key and salt the encrypted datastore was written with.
DatastoreKey == KeyOf(1) \o SaltOf(1)

\* The tables of the encrypted datastore.
DatastoreT7 ==
    [k \in {EncIndex(1, 0, 1600000000, 1), EncIndex(1, 0, 1600000060, 2)} |->
        IF k = EncIndex(1, 0, 1600000000, 1) THEN EncMessage(MessageBase) ELSE <<0>>]

\* key_hex as given on the command line: the hex of a key and salt, bare or
\* wrapped as x'...'.
Wrapped(hex) == <<120, 39>> \o hex \o <<39>>

CliKeys ==
    UNION {{Hex(KeyOf(a) \o SaltOf(b)), Wrapped(Hex(KeyOf(a) \o SaltOf(b)))} :
              a \in 1..MaxSeed, b \in 1..MaxSeed}

\* if key_hex.startswith("x'") and key_hex.endswith("'"): key_hex = key_hex[2:-1]
StripWrapper(key_hex) ==
    IF Len(key_hex) >= 2 /\ SubSeq(key_hex, 1, 2) = <<120, 39>>
                         /\ key_hex[Len(key_hex)] = 39
    THEN SubSeq(key_hex, 3, Len(key_hex) - 1)
    ELSE key_hex

\* The sqlcipher process on the PRAGMA key / sqlcipher_export commands:
\* the plaintext copy is made with the datastore's own key and with no
\* other.
Sqlcipher(key_hex) ==
    IF key_hex = Hex(DatastoreKey)
    THEN [returncode |-> 0, created |-> TRUE]
    ELSE [returncode |-> 1, created |-> FALSE]

\* decrypt_database(encrypted_db_path, key_hex, output_path): True or False.
decrypt_database(installed, found, key_hex) ==
    IF ~installed THEN FALSE
    ELSE IF ~found THEN FALSE
    ELSE IF Sqlcipher(StripWrapper(key_hex)).returncode # 0 THEN FALSE
    ELSE Sqlcipher(StripWrapper(key_hex)).created

\* python decrypt_database.py <encrypted_db_path> <key_hex>
DecryptDatabase ==
    /\ decryptResult.status = "none"
    /\ \E installed \in BOOLEAN, found \in BOOLEAN, key_hex \in CliKeys :
          /\ decryptResult' = [status |-> "returned",
                               v |-> decrypt_database(installed, found, key_hex)]
          /\ plainDb' = IF decrypt_database(installed, found, key_hex)
                        THEN [exists |-> TRUE, t7 |-> DatastoreT7, t2 |-> PeerTable]
                        ELSE plainDb
    /\ UNCHANGED recoverResult
    /\ UNCHANGED OthersThanPipe

\* The names each module of scripts/ binds at its top level: its imports,
\* classes, functions and module-level assignments.
ModuleNames ==
    [decrypt_database |->
        {"os", "sys", "subprocess", "shutil", "decrypt_database", "main"},
     extract_messages |->
        {"sqlite3", "struct", "datetime", "json", "sys", "io", "enum", "mmh3",
         "byteutil", "PostboxDecoder", "MessageIndex", "MessageFlags",
         "MessageDataFlags", "MessageTags", "FwdInfoFlags",
         "read_intermediate_fwd_info", "read_intermediate_message_complete",
         "get_peer_info", "extract_complete_chat", "analyze_messages", "main"},
     create_media_index |->
        {"json", "os", "sys", "Path", "defaultdict", "parse_media_ids",
         "extract_referenced_media_id", "find_media_file", "get_media_info",
         "create_media_index", "main"},
     list_chats |->
        {"sqlite3", "struct", "sys", "io", "enum", "mmh3", "byteutil",
         "PostboxDecoder", "db_path", "con", "cur", "count"}]

\* recover.py, lines 15 to 18: from <module> import <name>
RecoverImports ==
    <<[module |-> "decrypt_database", name |-> "decrypt_database"],
      [module |-> "extract_messages", name |-> "extract_chat_messages"],
      [module |-> "create_media_index", name |-> "create_media_index"],
      [module |-> "list_chats", name |-> "list_all_chats"]>>

\* The imports in order: the first name its module does not define raises
\* ImportError, and nothing after it runs.
RECURSIVE Import(_)
Import(imports) ==
    IF imports = <<>> THEN [status |-> "imported"]
    ELSE IF imports[1].name \notin ModuleNames[imports[1].module]
    THEN [status |-> "ImportError", name |-> imports[1].name]
    ELSE Import(Tail(imports))

RecoverCommands == {"list", "extract", "full"}

\* python3 recover.py <command> ...: the module is loaded, then main() runs
\* the command.  Neither branch of main calls tempkey_parse.
Recover ==
    /\ recoverResult.status = "none"
    /\ \E command \in RecoverCommands :
          recoverResult' =
              IF Import(RecoverImports).status = "imported"
              THEN [status |-> "main", command |-> command]
              ELSE Import(RecoverImports)
    /\ UNCHANGED <<decryptResult, plainDb>>
    /\ UNCHANGED OthersThanPipe

PipeNext ==
    \/ DecryptContainer
    \/ TempkeyParse
    \/ PrintPragma
    \/ DecryptDatabase
    \/ Recover
    \/ Extract
    \/ ScanRow
    \/ SaveOutput

PipeInit ==
    /\ decryptResult = [status |-> "none"]
    /\ recoverResult = [status |-> "none"]

Init == KeyInit /\ DecInit /\ GenInit /\ MsgInit /\ ScanInit /\ PeerInit /\ PipeInit /\ MediaInit

SpecKey == Init /\ [][KeyNext]_vars

SpecDec == Init /\ [][DecNext]_vars

\* The consumer of the generator keeps asking for entries until it stops.
SpecGen == Init /\ [][GenNext]_vars /\ WF_vars(GenStep)

SpecMsg == Init /\ [][MsgNext]_vars

SpecScan == Init /\ [][ScanNext]_vars

SpecSessions == Init /\ [][SessionsNext]_vars

SpecLoop == Init /\ [][LoopNext]_vars

SpecPeer == Init /\ [][PeerNext]_vars

SpecPipe == Init /\ [][PipeNext]_vars

SpecMedia == Init /\ [][MediaNext]_vars

----------------------------------------------------------------------------
(* C1 *)

\* The stored checksum field is the encoding of the hash of key || salt.
ChecksumMatches(data) ==
    SubSeq(data, 49, 52) = PackI(murmur(SubSeq(data, 1, 48)))

\* C1: for a 64-byte plaintext, tempkey_parse returns (bytes 0..31, bytes
\* 32..47) exactly when bytes 48..51 are the little-endian signed encoding of
\* the hash of key || salt; otherwise it raises and returns no key material.
\* The condition does not mention bytes 52..63: the padding decides nothing.
C1_TempkeyParseVerifies ==
    keyResult.status # "none" =>
        /\ Len(keyData) = 64
        /\ IF ChecksumMatches(keyData)
           THEN /\ keyResult.status = "ok"
                /\ keyResult.dbKey = SubSeq(keyData, 1, 32)
                /\ keyResult.dbSalt = SubSeq(keyData, 33, 48)
           ELSE /\ keyResult.status = "raised"
                /\ "dbKey" \notin DOMAIN keyResult
                /\ "dbSalt" \notin DOMAIN keyResult

\* A container with non-zero padding and a negative stored checksum parses.
C1_Witness ==
    /\ keyResult.status = "ok"
    /\ keyResult.warn
    /\ UnpackI(SubSeq(keyData, 49, 52)) < 0

----------------------------------------------------------------------------
(* C2, C8, C9, C10: the tagged-value decoder *)

\* The whole encoding the decoder's buffer was cut from.
SrcBytes == EncEntries(decSrc)

\* The call of the state made on a fresh decoder over buf.
Replay(call, buf) ==
    CASE call.op = "scan" -> iter_kv(buf, 0, TRUE)
      [] call.op = "get" -> get(buf, 0, call.valueType, call.key, TRUE)
      [] call.op = "decodeObjectForKey" -> decodeObjectForKey(buf, 0, call.key)
      [] call.op = "decodeRootObject" -> decodeRootObject(buf, 0)

IsCall == decCall.op \notin {"none", "new"}

\* C2: a scan of a well-formed encoding cut strictly before its end fails
\* with the truncated-input error (EOFError) and returns nothing.
C2_TruncationAlwaysFails ==
    (decCall.op = "scan" /\ ~AnyBadTag(decSrc) /\ decCut < Len(SrcBytes)) =>
        (~decResult.ok /\ decResult.err = "EOFError")

\* The first top-level entry of a source with a damaged tag byte in it, 0
\* when there is none.
FirstBad(src) ==
    IF AnyBadTag(src)
    THEN CHOOSE i \in 1..Len(src) :
            /\ HasBadTag(src[i][2])
            /\ \A j \in 1..(i - 1) : ~HasBadTag(src[j][2])
    ELSE 0

\* The encoding of the entries in front of the first damaged one.
GoodPrefix(src) == EncEntries(SubSeq(src, 1, FirstBad(src) - 1))

\* C8: over a buffer with a tag byte outside 0..13 at a value position, at
\* the top level or inside a nested payload, a scan raises the unknown-tag
\* error (ValueError) having yielded exactly the entries in front of that
\* value; a get / decodeObjectForKey / decodeRootObject either raises the same
\* error or returns what the entries in front of that value give it, never
\* anything read at or after the damaged value.
C8_UnknownTagAborts ==
    (IsCall /\ decCut = Len(SrcBytes) /\ FirstBad(decSrc) > 0) =>
        IF decCall.op = "scan"
        THEN /\ ~decResult.ok
             /\ decResult.err = "ValueError"
             /\ decResult.yielded = iter_kv(GoodPrefix(decSrc), 0, TRUE).v
        ELSE \/ ~decResult.ok /\ decResult.err = "ValueError"
             \/ /\ decResult.ok
                /\ decResult.pos <= Len(GoodPrefix(decSrc))
                /\ decResult = Replay(decCall, GoodPrefix(decSrc))

\* A scan stopped by a damaged tag byte inside the payload of the second
\* entry's object, after the first entry was yielded.
C8_Witness ==
    /\ decCall.op = "scan"
    /\ Len(decSrc) = 2
    /\ decSrc[2] = <<KeyRoot, TV(5, ObjBadTag)>>
    /\ FirstBad(decSrc) = 2
    /\ ~decResult.ok
    /\ Len(decResult.yielded) = 1

\* C9: every call on a decoder, wherever the calls before it left the
\* cursor, returns what the same call returns on a fresh decoder over the
\* same bytes.
C9_CallsRestart == IsCall => decResult = Replay(decCall, decBuf)

\* A full scan made after a call that stopped in the middle of the buffer.
C9_Witness ==
    /\ decCall.op = "scan"
    /\ decCall.from > 0
    /\ decCall.from < Len(decBuf)
    /\ decResult.ok
    /\ Len(decResult.v) = 2

\* A source of one well-formed entry, whole.
WholeEntry == Len(decSrc) = 1 /\ decCut = Len(SrcBytes) /\ ~AnyBadTag(decSrc)

\* C10: scanning the encoding of one entry yields one entry with the same
\* key and the same tag, and no other entry decodes to the same result.
C10_RoundTrip ==
    (decCall.op = "scan" /\ WholeEntry) =>
        /\ decResult.ok
        /\ Len(decResult.v) = 1
        /\ decResult.v[1][1] = PyStr(decSrc[1][1])
        /\ decResult.v[1][2] = PyEnum(decSrc[1][2].tag)
        /\ \A other \in Entries :
              (<<other>> # decSrc /\ ~HasBadTag(other[2])) =>
                  iter_kv(EncEntries(<<other>>), 0, TRUE).v # decResult.v

----------------------------------------------------------------------------
(* C4, C5: the message decoder *)

\* The value is the whole encoding of a message of record type 0.
WholeMessage == msgCut = Len(EncMessage(msgSrc)) /\ msgSrc.typ = 0

RawFallback(blob) == PyDict(DictSet(EmptyDict, StrRaw, PyStr(Hex(blob))))

\* Entry i of the list is what blob i alone decides: its root object, or
\* the raw fallback when decoding it raises.
ItemsMatch(list, blobs) ==
    /\ list.py = "list"
    /\ Len(list.v) = Len(blobs)
    /\ \A i \in 1..Len(blobs) :
          list.v[i] = IF decodeRootObject(blobs[i], 0).ok
                      THEN decodeRootObject(blobs[i], 0).v
                      ELSE RawFallback(blobs[i])

IsErrorRecord(x) == x.py = "record" /\ DOMAIN x.v = {"error", "raw_hex"}

MessageKeys ==
    {"stableId", "stableVersion", "globallyUniqueId", "authorId", "text",
     "flags", "tags", "forwarded", "attributes", "embeddedMedia",
     "referencedMediaIds", "groupingKey", "threadId", "globalTags", "localTags"}

IsMessageRecord(x) == x.py = "record" /\ DOMAIN x.v = MessageKeys

\* C4: for a whole message of record type 0, the function returns a message
\* record (no error record); its attribute and embedded-media lists have as
\* many entries as the counts declare; entry i is {raw: hex of blob i} when
\* blob i fails to decode, and every entry is decided by its own blob alone.
C4_ItemFallback ==
    (msgResult.called /\ WholeMessage) =>
        /\ msgResult.r.ok
        /\ IsMessageRecord(msgResult.r.v)
        /\ ItemsMatch(msgResult.r.v.v.attributes, msgSrc.attributes)
        /\ ItemsMatch(msgResult.r.v.v.embeddedMedia, msgSrc.embeddedMedia)

\* A record whose first attribute has a damaged tag byte and whose second
\* is a root object, with an embedded-media blob cut inside an integer.
C4_Witness ==
    /\ msgResult.called
    /\ WholeMessage
    /\ msgSrc.attributes = <<BlobBadTag, BlobObject>>
    /\ msgSrc.embeddedMedia = <<BlobCut>>
    /\ msgResult.r.ok
    /\ msgResult.r.v.v.attributes.v[1] = RawFallback(BlobBadTag)
    /\ msgResult.r.v.v.attributes.v[2] = decodeRootObject(BlobObject, 0).v
    /\ msgResult.r.v.v.embeddedMedia.v = <<RawFallback(BlobCut)>>

\* The first bytes of v an error record keeps, at most half of RawHexLen.
RawPrefix(v) ==
    IF Len(v) > RawHexLen \div 2 THEN SubSeq(v, 1, RawHexLen \div 2) ELSE v

\* C5: for every value, the function returns and never raises.  When the
\* try block fails the result is the error record with the error text and
\* the hex of at most the first 100 bytes of v; every proper prefix of a
\* record of type 0 fails so.  Otherwise the result is None when the first
\* byte is not 0 and a message record when it is.
C5_NeverPropagates ==
    msgResult.called =>
        /\ msgResult.r.ok
        /\ (msgSrc.typ = 0 /\ msgCut < Len(EncMessage(msgSrc))) => ~MessageTry(msgValue).ok
        /\ IF ~MessageTry(msgValue).ok
           THEN /\ IsErrorRecord(msgResult.r.v)
                /\ msgResult.r.v.v.error = PyLit(ErrorText(MessageTry(msgValue).err))
                /\ msgResult.r.v.v.raw_hex = PyStr(Hex(RawPrefix(msgValue)))
                /\ Len(msgResult.r.v.v.raw_hex.v) <= RawHexLen
           ELSE IF msgValue[1] # 0
           THEN msgResult.r.v = PyNone
           ELSE IsMessageRecord(msgResult.r.v)

\* An error record for a value of more than 100 bytes: its hex is capped.
C5_Witness ==
    /\ msgResult.called
    /\ Len(msgValue) > 100
    /\ msgResult.r.ok
    /\ IsErrorRecord(msgResult.r.v)
    /\ Len(msgResult.r.v.v.raw_hex.v) = RawHexLen
    /\ msgResult.r.v.v.error = PyLit("Not enough data")

----------------------------------------------------------------------------
(* C3, C6, C7: the scan of table t7 *)

\* The rows fetched so far.
Fetched == SubSeq(cur.rows, 1, cur.fetched)

\* Every row is a message record of the requested peer.
RowsOfPeer ==
    \A i \in 1..Len(cur.rows) :
        /\ from_bytes(cur.rows[i][1]).ok
        /\ from_bytes(cur.rows[i][1]).v.peerId = scanPeer

\* The record-type discriminant of the value is not 0.
OtherType(value) == value # <<>> /\ value[1] # 0

OtherTypeRows == {i \in 1..cur.fetched : OtherType(cur.rows[i][2])}

EntriesFrom(i) == {j \in 1..Len(messages) : emittedFrom[j] = i}

IsPlaceholder(entry) == "error" \in DOMAIN entry.v \/ "raw_hex" \in DOMAIN entry.v

EntryKeys == DOMAIN MessageData([id |-> 0, namespace |-> 0, timestamp |-> 0],
                                MessageDict([m \in MessageKeys \cup {"dataFlags"} |-> PyInt(0)]),
                                PyNone, PyNone).v

\* C6: the entry emitted for a record whose value decoded to an error
\* record carries the error marker or the hex dump, and has not the shape
\* of the entry of a decoded message.
C6_ErrorMarkerKept ==
    \A j \in 1..Len(messages) :
        IsErrorRecord(read_intermediate_message_complete(cur.rows[emittedFrom[j]][2]).v) =>
            /\ IsPlaceholder(messages[j])
            /\ DOMAIN messages[j].v # EntryKeys

\* C7: a record is fetched for decoding only when tempkey_parse has
\* returned verified key material.
C7_KeyBeforeDecode == total_processed > 0 => keyResult.status = "ok"

----------------------------------------------------------------------------
(* C11: objects without a registered decoder *)

\* The payload of the object of a one-entry source, as a fresh scan of its
\* encoding decodes it.
PayloadScan(o) == iter_kv(EncEntries(o.payload), 0, TRUE)

\* C11: the mapping decoded for an object without a registered decoder has
\* every entry of the payload, each key with its decoded value, and the type
\* hash besides: one key per payload entry and one for the type hash.
C11_GenericKeepsPayload ==
    (decCall.op = "scan" /\ WholeEntry /\ decSrc[1][2].tag = ValueType.Object) =>
        /\ decResult.ok
        /\ decResult.v[1][3].py = "dict"
        /\ decResult.v[1][3].v[StrType] = PyInt(decSrc[1][2].val.hash)
        /\ \A i \in 1..Len(decSrc[1][2].val.payload) :
              /\ PayloadScan(decSrc[1][2].val).v[i][1].v \in DOMAIN decResult.v[1][3].v
              /\ decResult.v[1][3].v[PayloadScan(decSrc[1][2].val).v[i][1].v]
                    = PayloadScan(decSrc[1][2].val).v[i][3]
        /\ Cardinality(DOMAIN decResult.v[1][3].v)
              = Len(decSrc[1][2].val.payload) + 1

----------------------------------------------------------------------------
(* C12, C13, C19, C20: the fields of the message record *)

\* Masks with a named bit, with a bit that has no name (8 of the flags,
\* 2048 of the tags), and with all the low bits.
FlagMasks == {0, 4, 8, 511}
TagMasks  == {0, 2048, 1536}

\* The record decoded from msgSrc with other masks on the wire.
WithMasks(fl, tg) ==
    read_intermediate_message_complete(
        EncMessage([msgSrc EXCEPT !.flags = fl, !.tags = tg])).v

\* C12: the decoded record determines the two masks read from the wire:
\* the flags and tags are lists of the names of the set bits, and no other
\* pair of masks in the same message decodes to the same record.
C12_MasksRecoverable ==
    (msgResult.called /\ WholeMessage) =>
        /\ msgResult.r.v.v.flags = PyList(NameList(msgSrc.flags, MessageFlags))
        /\ msgResult.r.v.v.tags = PyList(NameList(msgSrc.tags, MessageTags))
        /\ \A fl \in FlagMasks, tg \in TagMasks :
              WithMasks(fl, tg) = msgResult.r.v =>
                  (fl = msgSrc.flags /\ tg = msgSrc.tags)

\* C13: for each of the six gated fields, the record of a whole message
\* carries the value written on the wire when the field's bit is set in the
\* data flags, and None (or no such key) when it is clear.
C13_GatedFieldsCarried ==
    (msgResult.called /\ WholeMessage) =>
        \A i \in 1..Len(MessageDataFlags) :
            IF HasBit(msgSrc.dataFlags, MessageDataFlags[i].bit)
            THEN /\ MessageDataFlags[i].name \in DOMAIN msgResult.r.v.v
                 /\ msgResult.r.v.v[MessageDataFlags[i].name]
                        = PyInt(msgSrc[MessageDataFlags[i].name])
            ELSE \/ MessageDataFlags[i].name \notin DOMAIN msgResult.r.v.v
                 \/ msgResult.r.v.v[MessageDataFlags[i].name] = PyNone

\* The gated fields as the layout names them: name, bit of the data flags,
\* size in bytes.
GatedLayout ==
    <<[name |-> "globallyUniqueId", bit |-> 1, size |-> 8],
      [name |-> "globalTags", bit |-> 2, size |-> 4],
      [name |-> "groupingKey", bit |-> 4, size |-> 8],
      [name |-> "groupInfoStableId", bit |-> 8, size |-> 4],
      [name |-> "localTags", bit |-> 16, size |-> 4],
      [name |-> "threadId", bit |-> 32, size |-> 8]>>

\* The bytes the first n gated fields take under data flags d.
RECURSIVE GatedSum(_, _)
GatedSum(d, n) ==
    IF n = 0 THEN 0
    ELSE GatedSum(d, n - 1)
            + (IF HasBit(d, GatedLayout[n].bit) THEN GatedLayout[n].size ELSE 0)

\* Where gated field i starts, and where the message-flags word starts.
GatedOffset(d, i) == 10 + GatedSum(d, i - 1)
GatedEnd(d) == 10 + GatedSum(d, Len(GatedLayout))

\* Gated field i of the value v as the layout gives it: the integer at its
\* offset when its bit is set, None when it is clear.
ExpectedGated(v, i) ==
    IF ~HasBit(v[10], GatedLayout[i].bit) THEN PyNone
    ELSE IF GatedLayout[i].size = 8
    THEN PyInt(read_int64(v, GatedOffset(v[10], i)).v)
    ELSE PyInt(read_uint32(v, GatedOffset(v[10], i)).v)

\* The decoder's reads up to the message flags, on a value of record type 0
\* that holds its data-flags byte.
GatedAsLaidOut(v) ==
    IF Len(v) >= GatedEnd(v[10])
    THEN /\ ReadGated(v, 1).ok
         /\ ReadGated(v, 1).pos = GatedEnd(v[10])
         /\ \A i \in 1..Len(GatedLayout) :
               ReadGated(v, 1).v[GatedLayout[i].name] = ExpectedGated(v, i)
    ELSE ~ReadGated(v, 1).ok

DataFlagBytes == 0..255

\* C19: after stableId, stableVersion and the data-flags byte the decoder
\* reads globallyUniqueId (8 bytes), globalTags (4), groupingKey (8),
\* groupInfoStableId (4), localTags (4), threadId (8) in that order, each if
\* and only if its bit is set, so that for every data-flags byte the
\* message-flags word starts at offset 10 plus the sizes of the fields whose
\* bits are set: the record returned carries the fields found at those
\* offsets and the names of the flags and tags found after them.
C19_GatedFieldsInOrder ==
    /\ (msgResult.fetched /\ Len(msgValue) >= 10 /\ msgValue[1] = 0) =>
            GatedAsLaidOut(msgValue)
    /\ (msgResult.called /\ WholeMessage /\ msgSrc.attributes = <<>>) =>
            \A d \in DataFlagBytes :
                GatedAsLaidOut(EncMessage([msgSrc EXCEPT !.dataFlags = d]))
    /\ (msgResult.called /\ msgResult.r.ok /\ IsMessageRecord(msgResult.r.v)) =>
            /\ \A i \in 1..Len(GatedLayout) :
                  GatedLayout[i].name \in MessageKeys =>
                      msgResult.r.v.v[GatedLayout[i].name] = ExpectedGated(msgValue, i)
            /\ msgResult.r.v.v.flags =
                  PyList(NameList(read_uint32(msgValue, GatedEnd(msgValue[10])).v,
                                  MessageFlags))
            /\ msgResult.r.v.v.tags =
                  PyList(NameList(read_uint32(msgValue, GatedEnd(msgValue[10]) + 4).v,
                                  MessageTags))

\* A whole message decoded whose data flags set the first, third and fifth
\* gated fields: the message-flags word was read at offset 30.
C19_Witness ==
    /\ msgResult.called
    /\ WholeMessage
    /\ msgSrc.dataFlags = 21
    /\ msgSrc.flags = 4
    /\ IsMessageRecord(msgResult.r.v)
    /\ ReadGated(msgValue, 1).pos = 30
    /\ msgResult.r.v.v.globalTags = PyNone
    /\ msgResult.r.v.v.groupingKey = PyInt(msgSrc.groupingKey)
    /\ msgResult.r.v.v.flags = PyList(<<PyLit("Incoming")>>)

\* Where the forward-info flags byte of a value stands: after the gated
\* fields and the flags and tags words.
FwdOffset(v) == GatedEnd(v[10]) + 8

\* The forward-info flags byte of msgSrc as written, 0..255.
FwdByte == msgSrc.fwd.infoFlags % 256

\* The forward block of msgSrc as the layout gives it for its flags byte.
ExpectedFwd(f) ==
    IF f.bit = 0 \/ HasBit(FwdByte, f.bit)
    THEN (IF f.kind = "str" THEN PyStr(msgSrc.fwd[f.name]) ELSE PyInt(msgSrc.fwd[f.name]))
    ELSE PyNone

\* C20: when the forward-info flags byte is zero the block is absent and one
\* byte is consumed; for every other flags byte the block is present, with
\* authorId and date read unconditionally and sourceId, the source-message
\* key (peerId, namespace, id), signature, psaType and the extra flags read
\* in that order, each if and only if its bit is set, and None otherwise.
C20_ForwardInfoByFlagsByte ==
    (msgResult.called /\ WholeMessage) =>
        IF FwdByte = 0
        THEN /\ read_intermediate_fwd_info(msgValue, FwdOffset(msgValue)).v = PyNone
             /\ read_intermediate_fwd_info(msgValue, FwdOffset(msgValue)).pos
                    = FwdOffset(msgValue) + 1
             /\ msgResult.r.v.v.forwarded = PyNone
        ELSE /\ msgResult.r.v.v.forwarded.py = "record"
             /\ \A i \in 1..Len(FwdInfoHead \o FwdInfoFields) :
                   msgResult.r.v.v.forwarded.v[(FwdInfoHead \o FwdInfoFields)[i].name]
                       = ExpectedFwd((FwdInfoHead \o FwdInfoFields)[i])

----------------------------------------------------------------------------
(* C14: the key string handed to the decryption engine *)

HexDigits == (48..57) \cup (97..102)

\* The key string of the printed statement: what stands between the double
\* quotes of PRAGMA key="...";
KeyString == SubSeq(keyOut, 13, Len(keyOut) - 2)

\* The hex digits of a key string x'...'.
KeyDigits == SubSeq(KeyString, 3, Len(KeyString) - 1)

IsKeyString ==
    /\ Len(KeyString) >= 3
    /\ SubSeq(KeyString, 1, 2) = <<120, 39>>
    /\ KeyString[Len(KeyString)] = 39
    /\ \A i \in 1..Len(KeyDigits) : KeyDigits[i] \in HexDigits

\* C14 as stated: the key string printed for a verified key and salt is
\* x'<hex>' with exactly 64 hex characters.
C14_KeyStringHas64Digits ==
    keyOut # <<>> => (IsKeyString /\ Len(KeyDigits) = 64)

\* C14, amended: the key string printed for a verified (32-byte key, 16-byte
\* salt) pair is x'<hex>' with exactly 96 hex characters, the hex of the key
\* followed by the hex of the salt.
C14_KeyStringHas96Digits ==
    keyOut # <<>> =>
        /\ keyResult.status = "ok"
        /\ Len(keyResult.dbKey) = 32
        /\ Len(keyResult.dbSalt) = 16
        /\ IsKeyString
        /\ Len(KeyDigits) = 96
        /\ KeyDigits = Hex(keyResult.dbKey) \o Hex(keyResult.dbSalt)

\* A statement printed for a container with non-zero padding.
C14_Witness ==
    /\ keyOut # <<>>
    /\ keyResult.status = "ok"
    /\ keyResult.warn
    /\ Len(KeyDigits) = 96

----------------------------------------------------------------------------
(* C15, C16: the media identifiers *)

\* x is a dict with the key k.
HasKey(x, k) == x.py = "dict" /\ k \in DOMAIN x.v

\* The identifiers the representations call for: one for each representation
\* that is a dict whose resource is a dict with a datacenter and a photo id.
RECURSIVE ExpectedPhotos(_)
ExpectedPhotos(reps) ==
    IF reps = <<>> THEN <<>>
    ELSE (IF /\ HasKey(reps[1], KeyR)
             /\ HasKey(reps[1].v[KeyR], KeyD)
             /\ HasKey(reps[1].v[KeyR], KeyI)
          THEN <<PhotoId(reps[1].v[KeyR])>> ELSE <<>>)
            \o ExpectedPhotos(Tail(reps))

ExpectedIds(media) ==
    IF HasKey(media, KeyR) /\ media.v[KeyR].py = "list"
    THEN ExpectedPhotos(media.v[KeyR].v)
    ELSE IF /\ HasKey(media, KeyR)
            /\ HasKey(media.v[KeyR], KeyD)
            /\ HasKey(media.v[KeyR], KeyF)
    THEN <<PyStr(StrDocument \o Format(media.v[KeyR].v[KeyD]) \o StrDash
                    \o Format(media.v[KeyR].v[KeyF]))>>
    ELSE <<>>

\* C15: parse_media_ids returns for every value, never raising: the photo
\* identifiers of the representations in order for an object holding a list,
\* the one document identifier for an object holding a resource with a
\* datacenter and a file id, and no identifier for every other value.
C15_ParseMediaIdsTotal ==
    mediaCall.fn = "parse_media_ids" =>
        /\ mediaResult.ok
        /\ mediaResult.v = PyList(ExpectedIds(mediaCall.arg))

\* The decoded entries of referencedMediaIds among the arguments.
DecodedRefs == {DecodedRef(pair) : pair \in RefPairs}

\* C16: for the entry the message decoder makes of a pair (namespace, id),
\* zero values included, extract_referenced_media_id returns one identifier,
\* telegram-cloud-document-<namespace>-<id> in decimal, the same for the same
\* pair.
C16_ReferencedIdAlways ==
    (mediaCall.fn = "extract_referenced_media_id" /\ mediaCall.arg \in DecodedRefs) =>
        \E pair \in RefPairs :
            /\ mediaCall.arg = DecodedRef(pair)
            /\ mediaResult.ok
            /\ mediaResult.v = PyStr(StrDocument \o DecimalStr(pair[1]) \o StrDash
                                        \o DecimalStr(pair[2]))
            /\ mediaResult = extract_referenced_media_id(DecodedRef(pair))

\* The identifier of the pair (0, 0): telegram-cloud-document-0-0.
C16_Witness ==
    /\ mediaCall.fn = "extract_referenced_media_id"
    /\ mediaCall.arg = DecodedRef(<<0, 0>>)
    /\ mediaResult.ok
    /\ mediaResult.v = PyStr(StrDocument \o <<48, 45, 48>>)


----------------------------------------------------------------------------
(* C17: the peer cache and the sessions of one process *)

\* The peer ids get_peer_info is called with for a decoded message: the
\* author's, then the forward author's.
LookupIds(msg) ==
    (IF Truthy(MsgGet(msg, "authorId", PyNone)) THEN {msg.v.authorId.v} ELSE {})
    \cup (IF HasFwdAuthor(msg) THEN {msg.v.forwarded.v.authorId.v} ELSE {})

\* The peer ids looked up while the loop handles one row of t7.
ResultLookups(r) ==
    IF r.ok /\ r.v # PyNone THEN LookupIds(r.v) ELSE {}

RowLookups(peer_id, row) ==
    IF from_bytes(row[1]).ok /\ from_bytes(row[1]).v.peerId = peer_id
    THEN ResultLookups(read_intermediate_message_complete(row[2]))
    ELSE {}

\* C17: an entry that get_peer_info wrote to the peer cache during one
\* session (one run of extract_complete_chat over one datastore) is never
\* returned by a lookup made in another session over another datastore of
\* the same process: every peer id the loop is about to look up is either
\* not cached or was cached by the session that is running.
C17_CacheConfinedToSession ==
    (scanState = "scanning" /\ cur.fetched < Len(cur.rows)) =>
        \A id \in RowLookups(scanPeer, cur.rows[cur.fetched + 1]) \cap DOMAIN peerCache :
            cacheFrom[id] = sessions


----------------------------------------------------------------------------
(* C18: the peer cache over any sequence of get_peer_info calls *)

\* What one call may do to the cache: every entry stays, with its value.
CacheKept ==
    \A id \in DOMAIN peerCache :
        id \in DOMAIN peerCache' /\ peerCache'[id] = peerCache[id]

\* What a call returns: a cached id gives its entry and no query of t2, an
\* id not cached gives the entry then cached after one query, None gives
\* None and leaves the cache and the store alone.
CallAnswered ==
    (peerCall'.n # peerCall.n) =>
        IF peerCall'.peer_id = PyNone
        THEN /\ peerCall'.v = PyNone
             /\ ~peerCall'.queried
             /\ peerCache' = peerCache
             /\ peerQueries' = peerQueries
        ELSE IF peerCall'.peer_id.v \in DOMAIN peerCache
        THEN /\ peerCall'.v = peerCache[peerCall'.peer_id.v]
             /\ ~peerCall'.queried
             /\ peerCache' = peerCache
             /\ peerQueries' = peerQueries
        ELSE /\ peerCall'.queried
             /\ DOMAIN peerCache' = DOMAIN peerCache \cup {peerCall'.peer_id.v}
             /\ peerCall'.v = peerCache'[peerCall'.peer_id.v]

\* The entries the cache may hold: the decoded peer, the unknown sentinel
\* or the parse-error sentinel of an id, under that id.
CacheEntries ==
    /\ DOMAIN peerCache \subseteq PeerIds
    /\ \A id \in DOMAIN peerCache :
          peerCache[id] = PeerEntry(plainDb.t2, id, PeerData(plainDb.t2, id))

----------------------------------------------------------------------------
(* C21: decodeObjectForKey and the entries in front of the one it returns *)

\* The first entry of src under key whose tag is one of tags, 0 when there
\* is none.
FirstTagged(src, key, tags) ==
    IF \E i \in 1..Len(src) : src[i][1] = key /\ src[i][2].tag \in tags
    THEN CHOOSE i \in 1..Len(src) :
            /\ src[i][1] = key /\ src[i][2].tag \in tags
            /\ \A j \in 1..(i - 1) : ~(src[j][1] = key /\ src[j][2].tag \in tags)
    ELSE 0

\* The entries of src up to entry n, all of them when n is 0.
UpTo(src, n) == IF n = 0 THEN src ELSE SubSeq(src, 1, n)

\* The value a scan gives for one entry alone.
ValueOf(entry) == iter_kv(EncEntries(<<entry>>), 0, TRUE).v[1][3]

\* What the call returns when the entry it stops at is entry n of src.
Returned(src, n) ==
    IF n > 0 /\ src[n][2].tag = ValueType.Object THEN ValueOf(src[n]) ELSE PyNone

\* A decodeObjectForKey call on a whole buffer whose entries up to entry n
\* are well formed.
ObjectCallUpTo(n) ==
    /\ decCall.op = "decodeObjectForKey"
    /\ decCut = Len(SrcBytes)
    /\ ~AnyBadTag(UpTo(decSrc, n))

\* C21: decodeObjectForKey(key) returns the decoded value of the first entry
\* whose key equals key and whose tag is Object, whatever entries with other
\* keys or other tags come before it, and returns None without raising when
\* the buffer has no entry with that key and the Object tag.
C21_FirstObjectEntry ==
    ObjectCallUpTo(FirstTagged(decSrc, decCall.key, {ValueType.Object})) =>
        /\ decResult.ok
        /\ decResult.v =
              Returned(decSrc, FirstTagged(decSrc, decCall.key, {ValueType.Object}))

\* C21, amended: decodeObjectForKey(key) stops at the first entry whose key
\* equals key and whose tag is Object or Nil, whatever entries with other
\* keys, or with that key and any other tag, come before it; it returns the
\* decoded value when that entry is an Object, and None without raising when
\* it is Nil or when there is no such entry.
C21_FirstObjectOrNilEntry ==
    ObjectCallUpTo(FirstTagged(decSrc, decCall.key,
                               {ValueType.Object, ValueType.Nil})) =>
        /\ decResult.ok
        /\ decResult.v =
              Returned(decSrc, FirstTagged(decSrc, decCall.key,
                                           {ValueType.Object, ValueType.Nil}))

\* The object of the second entry returned, past an entry with the same key
\* and another tag.
C21_Witness ==
    /\ decCall.op = "decodeObjectForKey"
    /\ decCall.key = KeyRoot
    /\ decSrc = <<<<KeyRoot, TV(1, 5)>>, <<KeyRoot, TV(5, ObjInt32)>>>>
    /\ decResult.ok
    /\ decResult.v = ValueOf(decSrc[2])
    /\ decResult.v.py = "dict"


----------------------------------------------------------------------------
(* C22: the scan terminates *)

\* The payload _readObject hands to the nested decoder for an object whose
\* type hash stands at offset pos of buf.
PayloadAt(buf, pos) ==
    BufRead(buf, pos + 8, read_int32(buf, pos + 4).v).v

\* Every payload a buffer can give is strictly shorter than the buffer.
PayloadsShorter(buf) ==
    \A pos \in 0..(Len(buf) - 8) : Len(PayloadAt(buf, pos)) < Len(buf)

\* The cursor is inside the buffer, and every entry yielded took at least
\* the byte of its key length and the byte of its tag.
GenBounded ==
    gen.state # "none" =>
        /\ gen.pos \in 0..Len(gen.buf)
        /\ 2 * gen.yielded <= gen.pos
        /\ PayloadsShorter(gen.buf)

\* A negative count gives the empty list; a count larger than the bytes
\* that follow it gives an error and no entry.
GenCounts ==
    /\ (gen.state # "none" /\ gen.buf \in NegativeCounts /\ gen.yielded = 1) =>
            gen.last[3] = PyList(<<>>)
    /\ (gen.state # "none" /\ gen.buf \in NegativeCounts) =>
            gen.state # "raised"
    /\ (gen.state # "none" /\ gen.buf \in ExcessCounts) =>
            gen.yielded = 0 /\ gen.state # "stopped"

\* One next(): the generator raises, or stops with the cursor at the end of
\* the buffer, or yields and moves the cursor forward.
GenProgress ==
    gen.state = "running" =>
        \/ gen'.state = "raised"
        \/ gen'.state = "stopped" /\ gen.pos >= Len(gen.buf) /\ gen'.pos = gen.pos
        \/ /\ gen'.state = "running"
           /\ gen'.pos > gen.pos
           /\ gen'.yielded = gen.yielded + 1

GenDone == gen.state \in {"stopped", "raised"}

\* C22: decoding terminates: each step of the entry scan consumes at least
\* one byte or raises, a nested payload is strictly shorter than the buffer
\* that holds it, a negative or excessive element count gives an empty
\* result or an error, and a scan that has started yields finitely many
\* entries and then stops or fails.
C22_ScanTerminates ==
    /\ [](GenBounded /\ GenCounts)
    /\ [][GenProgress]_gen
    /\ (gen.state = "running") ~> GenDone

\* A scan that stopped after two entries, the first an array of negative
\* declared count.
C22_Witness ==
    /\ gen.state = "stopped"
    /\ gen.buf \in NegativeCounts
    /\ gen.yielded = 2
    /\ gen.pos = Len(gen.buf)

----------------------------------------------------------------------------
(* C23: the bookkeeping of the scan *)

\* The counters and the output list agree.
CountersAgree ==
    /\ extracted = Len(messages)
    /\ extracted <= total_processed
    /\ total_processed = cur.fetched

\* Entry j was made from row emittedFrom[j], a row already fetched whose
\* key is the index of the requested peer with the entry's namespace,
\* timestamp and id.
FromRequestedPeer ==
    /\ Len(emittedFrom) = Len(messages)
    /\ \A j \in 1..Len(messages) :
          /\ emittedFrom[j] \in 1..cur.fetched
          /\ cur.rows[emittedFrom[j]][1] =
                EncIndex(scanPeer, messages[j].v.namespace.v,
                         messages[j].v.timestamp.v, messages[j].v.id.v)

\* The stream is in key order and the entries keep its order.
InStreamOrder ==
    /\ \A i \in 1..Len(cur.rows) : \A k \in (i + 1)..Len(cur.rows) :
          BytesLess(cur.rows[i][1], cur.rows[k][1])
    /\ \A j \in 1..Len(emittedFrom) : \A k \in (j + 1)..Len(emittedFrom) :
          emittedFrom[j] < emittedFrom[k]

\* The scan ends only after every row of t7 was fetched.
AllVisited ==
    scanState = "saved" => cur.fetched = Cardinality(DOMAIN plainDb.t7)

\* While rows are left, the step taken fetches the next one and goes on
\* scanning, whatever its handling did; the entries so far stay.
NextRowVisited ==
    (scanState = "scanning" /\ cur.fetched < Len(cur.rows)) =>
        /\ scanState' = "scanning"
        /\ cur'.fetched = cur.fetched + 1
        /\ total_processed' = total_processed + 1
        /\ SubSeq(messages', 1, Len(messages)) = messages

\* C23: after every step of the scan extracted is the number of entries
\* and at most total_processed; every entry comes from a record whose key
\* has the requested peer id; the entries are in the order of the
\* key-ordered stream; and a record whose handling raises (key decode,
\* value decode, peer lookup, timestamp conversion) is followed by the
\* visit of every later record.
C23_ScanBookkeeping ==
    /\ [](CountersAgree /\ FromRequestedPeer /\ InStreamOrder /\ AllVisited)
    /\ [][NextRowVisited]_vars

\* A finished scan of two records of the requested peer on a database with
\* no table t2: the lookup of the first record's author raised, the second
\* record was visited and emitted.
C23_Witness ==
    /\ scanState = "saved"
    /\ plainDb.noT2
    /\ Len(cur.rows) = 2
    /\ \A i \in 1..2 : from_bytes(cur.rows[i][1]).ok
                       /\ from_bytes(cur.rows[i][1]).v.peerId = scanPeer
    /\ cur.rows[1][2] = EncMessage(MessageBase)
    /\ total_processed = 2
    /\ emittedFrom = <<2>>

====
